---------------------------- MODULE Spec2Model ----------------------------
(***************************************************************************)
(* A model of src/cdn/snippets.py: sign_url and the sign-url command line, *)
(* run by one caller (Spec) and by several threads (SpecThreads).          *)
(*                                                                         *)
(* Strings are sequences of one-character strings.  A character outside    *)
(* ASCII is written by its code point, "U+00E9".  Byte strings are         *)
(* sequences of numbers in 0..255.                                         *)
(***************************************************************************)
EXTENDS Integers, Sequences, FiniteSets, TLC

VARIABLES
  pc,         \* where control is: "idle", "argparse", "L47".."L67" inside
              \* sign_url, "returned", "raised", "exited"
  caller,     \* who called sign_url: "api" (a direct call) or "cli" (__main__)
  argv,       \* the command line of a "cli" run
  args,       \* sign_url's four arguments
  tz,         \* the local time zone of the process (its environment)
  frame,      \* sign_url's local variables
  stdout,     \* the lines printed to standard output in this run
  stderr,     \* what was written to standard error in this run
  exc,        \* the exception raised, or "none"
  ret,        \* what sign_url returned
  exit,       \* the exit status of a "cli" run, -1 while it has none
  hmacCalls,  \* the number of HMAC computations of this run
  prev        \* the run before this one, as Summary gives it

\* sign_url called by several threads of one process
VARIABLES
  tpc,        \* where each thread is: "idle", "L47", "L70", "L70end" (inside
              \* print), "returned", "raised"
  targs,      \* the arguments of each thread's call
  tsigned,    \* each thread's local variable signed_url
  written     \* the texts written to sys.stdout, in order: the one standard
              \* output the threads of a process share

cdnVars ==
  <<pc, caller, argv, args, tz, frame, stdout, stderr, exc, ret, exit,
    hmacCalls, prev>>

threadVars == <<tpc, targs, tsigned, written>>

\* The number of threads that call sign_url.
NumThreads == 2

Threads == 1..NumThreads

\* src/firestore/cloud-client/distributed_counters.py: a Counter, the shards
\* it keeps in Firestore and the clients that use it
VARIABLES
  numShards,  \* Counter._num_shards, 0 while no Counter has been made
  initNum,    \* init_counter's loop variable num: the shards created so far
  shards,     \* the documents of the "shards" collection: the count of each
              \* id in 0..numShards-1 that exists
  clients,    \* each client's call of increment_counter: where it is, the
              \* doc_id it picked
  completed,  \* the number of increment_counter calls that have returned
  reader      \* the call of get_count: where it is, the shards left to read,
              \* total, and the number of completed increments when it began

counterVars == <<numShards, initNum, shards, clients, completed, reader>>

\* The largest number of shards of a Counter.
MaxShards == 3

\* The number of clients that call increment_counter.
NumClients == 2

\* The largest number of increment_counter calls that complete.
MaxIncrements == 3

Clients == 1..NumClients

ClientIdle == [pc |-> "idle", doc_id |-> -1]

ReaderIdle == [pc |-> "idle", shards |-> <<>>, total |-> 0, began |-> 0]

\* No Counter has been made.
CounterIdle ==
  /\ numShards = 0
  /\ initNum = 0
  /\ shards = <<>>
  /\ clients = [c \in Clients |-> ClientIdle]
  /\ completed = 0
  /\ reader = ReaderIdle

\* src/run/image-processing/main.py: the handler of Pub/Sub push requests
VARIABLES
  ipc,        \* where index() is: "idle", "L28", "L34", "L40", "L54", "L60",
              \* "responded"
  request,    \* the JSON body of the request, as Requests describes it
  response,   \* the status and body index() answered with; status 0 before
  blurred,    \* whether image.blur_offensive_images was called for this request
  served      \* the number of requests answered

imageVars == <<ipc, request, response, blurred, served>>

\* The largest number of requests the service answers.
MaxRequests == 2

NoRequest ==
  [envelope |-> "null", message |-> "absent", data |-> "absent",
   name |-> "absent", bucket |-> "absent"]

NoResponse == [status |-> 0, body |-> ""]

\* The service has received no request.
ImageIdle ==
  /\ ipc = "idle"
  /\ request = NoRequest
  /\ response = NoResponse
  /\ blurred = FALSE
  /\ served = 0

\* src/functions/http/main.py: parse_multipart, called once
VARIABLES
  upc,        \* where parse_multipart is: "idle", "L87" (the loop that saves),
              \* "L92" (the loop that removes), "returned", "raised"
  form,       \* the keys of request.form.to_dict(), in order
  files,      \* the keys of request.files.to_dict(), in order
  uidx,       \* the position of the running loop in files
  tempdir,    \* the paths of the files in tempfile.gettempdir()
  processed,  \* the lines parse_multipart printed
  uret,       \* what parse_multipart returned; <<>> before it returns
  uexc        \* the exception parse_multipart raised; "none" if none

uploadVars == <<upc, form, files, uidx, tempdir, processed, uret, uexc>>

\* The largest number of uploaded files in a request.
MaxFiles == 2

\* No request has arrived; the temporary directory is empty.
UploadIdle ==
  /\ upc = "idle"
  /\ form = <<>>
  /\ files = <<>>
  /\ uidx = 0
  /\ tempdir = {}
  /\ processed = <<>>
  /\ uret = <<>>
  /\ uexc = "none"

\* src/functions/sql/mysql_sample.py: mysql_demo, invoked again and again in
\* one instance
VARIABLES
  spc,          \* where mysql_demo is: "idle", "L60", "L72", "L73"
  mysql_conn,   \* the global: NoConnection (None), or the number of the
                \* Connection object pymysql.connect returned
  connOpen,     \* mysql_conn.open
  invocations,  \* the number of invocations of mysql_demo begun
  connects,     \* the calls of pymysql.connect: the invocation of each and
                \* the connection it returned (NoConnection if it raised)
  openRead,     \* what line 49 read from mysql_conn.open in this invocation:
                \* "unread", "open" or "closed"
  pinged,       \* whether this invocation called ping(reconnect=True)
  cursorOf,     \* the connection whose cursor() this invocation called
  outcome       \* how the last invocation ended: "none", "returned", "raised"

sqlVars ==
  <<spc, mysql_conn, connOpen, invocations, connects, openRead, pinged,
    cursorOf, outcome>>

\* The largest number of invocations of mysql_demo.
MaxInvocations == 5

\* mysql_conn = None (line 40)
NoConnection == 0

\* The module is loaded and mysql_demo was never invoked.
SqlIdle ==
  /\ spc = "idle"
  /\ mysql_conn = NoConnection
  /\ connOpen = FALSE
  /\ invocations = 0
  /\ connects = <<>>
  /\ openRead = "unread"
  /\ pinged = FALSE
  /\ cursorOf = NoConnection
  /\ outcome = "none"

\* src/appengine/flexible/memcache/main.py: index(), served by several workers
\* against one memcache
VARIABLES
  memcache,   \* the value stored under 'counter'; Missing when there is none
  hpc,        \* where each worker's index() is: "idle", "L40" (the value was
              \* read), "L41" (it will set 0), "L43" (it will increment)
  hread,      \* what each worker's memcache_client.get('counter') returned
  values,     \* the values the completed requests returned, in order
  requests    \* the number of requests begun

memcacheVars == <<memcache, hpc, hread, values, requests>>

\* The number of workers serving requests at the same time.
NumWorkers == 2

\* The largest number of requests.
MaxHits == 3

Workers == 1..NumWorkers

\* memcache_client.get('counter') of a key that is not stored gives None.
Missing == -1

\* The memcache is empty and no request has arrived.
MemcacheIdle ==
  /\ memcache = Missing
  /\ hpc = [w \in Workers |-> "idle"]
  /\ hread = [w \in Workers |-> Missing]
  /\ values = <<>>
  /\ requests = 0

\* src/datastore/cloud-client/snippets.py: transactional_update
VARIABLES
  dpc,           \* where transactional_update is: "idle", "L655" (the head of
                 \* the loop), "L645", "L648", "L651" (the end of the with
                 \* block), "L665", "returned", "raised"
  updates,       \* the number of calls of transactional_update
  store,         \* the committed balance of each account in Datastore
  from_account,  \* transfer_funds: the balance of its local from_account
  to_account,    \* transfer_funds: the balance of its local to_account
  mutations,     \* the puts the open transaction holds until its commit
  outcomes,      \* how each call of transfer_funds ended: "committed",
                 \* "Conflict" or "other" (another exception)
  dprinted       \* the lines this call of transactional_update printed

datastoreVars ==
  <<dpc, updates, store, from_account, to_account, mutations, outcomes,
    dprinted>>

\* The largest number of calls of transactional_update.
MaxUpdates == 2

\* The keys Datastore gave to account1 and account2 of the call number n.
Account1(n) == 2 * n - 1
Account2(n) == 2 * n

\* Nothing is stored and transactional_update has not been called.
DatastoreIdle ==
  /\ dpc = "idle"
  /\ updates = 0
  /\ store = [a \in {} |-> 0]
  /\ from_account = 0
  /\ to_account = 0
  /\ mutations = [a \in {} |-> 0]
  /\ outcomes = <<>>
  /\ dprinted = <<>>

\* src/functions/slack/main.py: the module and its function kg_search
VARIABLES
  kpc,        \* where the program is: "L21" (the module is being loaded),
              \* "idle", "L92", "L95", "L96", "returned", "raised"
  config,     \* config['SLACK_TOKEN']; Unloaded before config.json is read
  krequest,   \* the request kg_search was called with: its method and the
              \* values of 'token' and 'text' in its form, NoField if absent
  verified,   \* whether kg_search called verify_web_hook for this request
  searched,   \* whether make_search_request ran for this request
  kresponse,  \* the status and body kg_search returned; status 0 before
  kexc        \* the exception kg_search raised; "none" if none

slackVars == <<kpc, config, krequest, verified, searched, kresponse, kexc>>

\* config before line 23 has run.
Unloaded == "<unloaded>"

\* form.get(key) of a key the form does not hold: None.
NoField == "<None>"

\* The module has not been loaded.
SlackIdle ==
  /\ kpc = "L21"
  /\ config = Unloaded
  /\ krequest = [method |-> "GET", token |-> NoField, text |-> NoField]
  /\ verified = FALSE
  /\ searched = FALSE
  /\ kresponse = [status |-> 0, body |-> ""]
  /\ kexc = "none"

\* The variables each program leaves alone.
notCdnVars == <<threadVars, counterVars, imageVars, uploadVars, sqlVars, memcacheVars, datastoreVars, slackVars>>

notThreadVars == <<cdnVars, counterVars, imageVars, uploadVars, sqlVars, memcacheVars, datastoreVars, slackVars>>

notCounterVars == <<cdnVars, threadVars, imageVars, uploadVars, sqlVars, memcacheVars, datastoreVars, slackVars>>

notImageVars == <<cdnVars, threadVars, counterVars, uploadVars, sqlVars, memcacheVars, datastoreVars, slackVars>>

notUploadVars == <<cdnVars, threadVars, counterVars, imageVars, sqlVars, memcacheVars, datastoreVars, slackVars>>

notSqlVars == <<cdnVars, threadVars, counterVars, imageVars, uploadVars, memcacheVars, datastoreVars, slackVars>>

notMemcacheVars == <<cdnVars, threadVars, counterVars, imageVars, uploadVars, sqlVars, datastoreVars, slackVars>>

notDatastoreVars == <<cdnVars, threadVars, counterVars, imageVars, uploadVars, sqlVars, memcacheVars, slackVars>>

notSlackVars == <<cdnVars, threadVars, counterVars, imageVars, uploadVars, sqlVars, memcacheVars, datastoreVars>>

(***************************************************************************)
(* Characters                                                              *)
(***************************************************************************)

\* The printable ASCII characters in code order, from the space (32) to the
\* tilde (126); the grave accent (96) is written by its code point.
Printable ==
  <<" ","!","\"","#","$","%","&","'","(",")","*","+",",","-",".","/",
    "0","1","2","3","4","5","6","7","8","9",":",";","<","=",">","?","@",
    "A","B","C","D","E","F","G","H","I","J","K","L","M","N","O","P","Q",
    "R","S","T","U","V","W","X","Y","Z","[","\\","]","^","_","U+0060",
    "a","b","c","d","e","f","g","h","i","j","k","l","m","n","o","p","q",
    "r","s","t","u","v","w","x","y","z","{","|","}","~">>

Range(s) == { s[i] : i \in 1..Len(s) }

IsAscii(c) == c \in Range(Printable) \cup {"\t", "\n", "\r"}

\* ord(c) for the characters the model uses.
Ord(c) ==
  CASE c = "\t" -> 9
    [] c = "\n" -> 10
    [] c = "\r" -> 13
    [] c = "U+00E9" -> 233
    [] OTHER -> 31 + (CHOOSE i \in 1..Len(Printable) : Printable[i] = c)

\* str.isspace() on those characters.
IsSpace(c) == c \in {" ", "\t", "\n", "\r"}

Digits == <<"0","1","2","3","4","5","6","7","8","9">>

IsDigit(c) == c \in Range(Digits)

DigitValue(c) == (CHOOSE i \in 1..10 : Digits[i] = c) - 1

IsAlpha(c) == IsAscii(c) /\ ((Ord(c) >= 65 /\ Ord(c) <= 90) \/ (Ord(c) >= 97 /\ Ord(c) <= 122))

(***************************************************************************)
(* str methods                                                             *)
(***************************************************************************)

\* s.find(c, start) with 1-based positions; 0 when c does not occur.
Find(s, c, start) ==
  LET hits == { i \in start..Len(s) : s[i] = c }
  IN  IF hits = {} THEN 0 ELSE CHOOSE i \in hits : \A j \in hits : i <= j

\* s.rfind(c): the last position of c; 0 when c does not occur.
RFind(s, c) ==
  LET hits == { i \in 1..Len(s) : s[i] = c }
  IN  IF hits = {} THEN 0 ELSE CHOOSE i \in hits : \A j \in hits : i >= j

Drop(s, n) == SubSeq(s, n + 1, Len(s))

Take(s, n) == SubSeq(s, 1, n)

StartsWith(s, p) == Len(p) <= Len(s) /\ Take(s, Len(p)) = p

EndsWith(s, p) == Len(p) <= Len(s) /\ Drop(s, Len(s) - Len(p)) = p

\* s.replace(c, ""): every c removed.
Remove(s, cs) == SelectSeq(s, LAMBDA x : x \notin cs)

\* s.lstrip(): leading whitespace removed.
RECURSIVE LStrip(_)
LStrip(s) == IF s # <<>> /\ IsSpace(Head(s)) THEN LStrip(Tail(s)) ELSE s

\* s.rstrip(): trailing whitespace removed.
RECURSIVE RStrip(_)
RStrip(s) ==
  IF s # <<>> /\ IsSpace(s[Len(s)]) THEN RStrip(Take(s, Len(s) - 1)) ELSE s

\* A plausible slip: only the leading whitespace is removed.
StripLeadingOnly(s) == LStrip(s)

\* url.strip()
Strip(s) == RStrip(LStrip(s))

\* s.split(sep): the pieces of s between the occurrences of the character sep.
RECURSIVE Split(_, _)
Split(s, sep) ==
  LET i == Find(s, sep, 1)
  IN  IF i = 0 THEN <<s>> ELSE <<Take(s, i - 1)>> \o Split(Drop(s, i), sep)

\* s.split(sep, 1)
Split1(s, sep) ==
  LET i == Find(s, sep, 1)
  IN  IF i = 0 THEN <<s>> ELSE <<Take(s, i - 1), Drop(s, i)>>

(***************************************************************************)
(* urllib.parse.urlsplit and parse_qs, as sign_url calls them               *)
(***************************************************************************)

SchemeChars ==
  { c \in Range(Printable) : IsAlpha(c) \/ IsDigit(c) \/ c \in {"+", "-", "."} }

\* The characters urlsplit strips from the left of its argument: C0 control
\* characters and the space.
C0ControlOrSpace == {" ", "\t", "\n", "\r"}

RECURSIVE LStripC0(_)
LStripC0(s) ==
  IF s # <<>> /\ Head(s) \in C0ControlOrSpace THEN LStripC0(Tail(s)) ELSE s

UnsafeUrlBytesToRemove == {"\t", "\r", "\n"}

\* _splitnetloc(url, 2): the netloc ends at the first of "/", "?", "#".
SplitNetloc(url) ==
  LET ends  == { i \in 3..Len(url) : url[i] \in {"/", "?", "#"} }
      delim == IF ends = {} THEN Len(url) + 1
               ELSE CHOOSE i \in ends : \A j \in ends : i <= j
  IN  [netloc |-> SubSeq(url, 3, delim - 1), rest |-> Drop(url, delim - 1)]

HexDigits ==
  Range(Digits) \cup {"a","b","c","d","e","f","A","B","C","D","E","F"}

\* _check_bracketed_host: the bracketed host must be an IPv6 (or IPvFuture)
\* address.  ipaddress.ip_address is reduced to its character set: hex digits
\* and at least one ":" (exact on every host the model draws).
BracketedHostOk(host) ==
  /\ \A i \in 1..Len(host) : host[i] \in HexDigits \cup {":"}
  /\ ":" \in Range(host)

\* A plausible slip: a splitter that looks for "#" and "?" only and never
\* rejects a URL.
UrlSplitUnchecked(u) ==
  LET h     == Find(u, "#", 1)
      url3  == IF h > 0 THEN Take(u, h - 1) ELSE u
      q     == Find(url3, "?", 1)
  IN  [ok |-> TRUE, scheme |-> <<>>, netloc |-> <<>>,
       path |-> IF q > 0 THEN Take(url3, q - 1) ELSE url3,
       query |-> IF q > 0 THEN Drop(url3, q) ELSE <<>>,
       fragment |-> IF h > 0 THEN Drop(u, h) ELSE <<>>]

\* urlsplit(url): [ok, scheme, netloc, path, query, fragment]; ok is FALSE
\* where urlsplit raises ValueError.
UrlSplit(u) ==
  LET url0    == Remove(LStripC0(u), UnsafeUrlBytesToRemove)
      i       == Find(url0, ":", 1)
      hasSch  == /\ i > 1
                 /\ IsAlpha(url0[1])
                 /\ \A k \in 1..(i - 1) : url0[k] \in SchemeChars
      scheme  == IF hasSch THEN Take(url0, i - 1) ELSE <<>>
      url1    == IF hasSch THEN Drop(url0, i) ELSE url0
      hasNet  == StartsWith(url1, <<"/", "/">>)
      sn      == IF hasNet THEN SplitNetloc(url1) ELSE [netloc |-> <<>>, rest |-> url1]
      netloc  == sn.netloc
      open    == "[" \in Range(netloc)
      close   == "]" \in Range(netloc)
      host    == Split1(Split1(netloc, "[")[IF open THEN 2 ELSE 1], "]")[1]
      bad     == hasNet /\ \/ (open /\ ~close) \/ (close /\ ~open)
                           \/ (open /\ close /\ ~BracketedHostOk(host))
      url2    == sn.rest
      h       == Find(url2, "#", 1)
      url3    == IF h > 0 THEN Take(url2, h - 1) ELSE url2
      frag    == IF h > 0 THEN Drop(url2, h) ELSE <<>>
      q       == Find(url3, "?", 1)
      path    == IF q > 0 THEN Take(url3, q - 1) ELSE url3
      query   == IF q > 0 THEN Drop(url3, q) ELSE <<>>
  IN  [ok |-> ~bad, scheme |-> scheme, netloc |-> netloc, path |-> path,
       query |-> query, fragment |-> frag]

\* One field of parse_qsl(qs, keep_blank_values=True): name_value.split('=', 1)
\* with a blank value appended when there is no "=", and "+" read as a space.
\* (Percent-decoding is left out: sign_url uses only whether any field exists.)
QsField(nameValue) ==
  LET nv   == Split1(nameValue, "=")
      plus == [c \in Range(nameValue) \cup {"+"} |-> IF c = "+" THEN " " ELSE c]
      conv(s) == [k \in 1..Len(s) |-> plus[s[k]]]
  IN  <<conv(nv[1]), IF Len(nv) = 2 THEN conv(nv[2]) ELSE <<>>>>

\* parse_qs(qs, keep_blank_values=True), as the list of its (name, value)
\* pairs: empty exactly when the dict parse_qs returns is empty.
ParseQs(qs) ==
  LET fields == IF qs = <<>> THEN <<>> ELSE Split(qs, "&")
      kept   == SelectSeq(fields, LAMBDA f : f # <<>>)
  IN  [k \in 1..Len(kept) |-> QsField(kept[k])]

(***************************************************************************)
(* datetime, timedelta, float and int                                      *)
(*                                                                         *)
(* A datetime is [day, sec, us]: the day counted from 1970-01-01, the      *)
(* second of the day and the microsecond.  A timedelta is [days, seconds,  *)
(* microseconds], normalised as Python normalises it.  An integer too      *)
(* large for one machine number is [neg, hi, lo], of value                 *)
(* +-(hi * 10^7 + lo) with 0 <= lo < 10^7.                                 *)
(***************************************************************************)

SecondsPerDay == 86400

UsPerSecond == 1000000

\* The precision of a Python float (an IEEE 754 double), in bits.
MantissaBits == 53

\* datetime.min and datetime.max, as days from 1970-01-01.
MinDay == -719162

MaxDay == 2932896

Limb == 10^7

Big(neg, hi, lo) == [neg |-> neg, hi |-> hi, lo |-> lo]

\* d * 86400 + s for 0 <= d <= MaxDay and 0 <= s <= 86400.
BigOfDaySec(d, s) ==
  LET b   == d * 432                       \* d * 86400 = b * 200
      lo0 == (b % 50000) * 200 + s
  IN  Big(FALSE, (b \div 50000) + (lo0 \div Limb), lo0 % Limb)

BigSucc(b) ==
  IF b.lo + 1 = Limb THEN Big(b.neg, b.hi + 1, 0) ELSE Big(b.neg, b.hi, b.lo + 1)

BigPred(b) ==
  IF b.lo = 0 THEN Big(b.neg, b.hi - 1, Limb - 1) ELSE Big(b.neg, b.hi, b.lo - 1)

\* a >= b, for magnitudes.
BigGE(a, b) == a.hi > b.hi \/ (a.hi = b.hi /\ a.lo >= b.lo)

\* 2^k for 7 <= k <= 37.
Pow2Big(k) ==
  Big(FALSE, (2^(k - 7)) \div 78125, ((2^(k - 7)) % 78125) * 128)

\* The binary exponent e of a magnitude m >= 1, 2^e <= m < 2^(e+1), where it
\* is at least 34; 33 stands for every smaller exponent (a double then holds
\* m and its microseconds without rounding to a whole second).
FloatExponent(m) ==
  LET ks == { k \in 34..37 : BigGE(m, Pow2Big(k)) }
  IN  IF ks = {} THEN 33 ELSE CHOOSE k \in ks : \A j \in ks : k >= j

\* The largest number of microseconds that is less than half the spacing of
\* the doubles of exponent e: a fraction that close to a whole number of
\* seconds is rounded onto it.
HalfUlpMicros(e) == (UsPerSecond - 1) \div (2^(MantissaBits - e))

\* A plausible slip: datetime.fromtimestamp(0), the epoch in the local time of
\* the process.
EpochLocal == [day |-> 0, sec |-> tz, us |-> 0]

\* datetime.datetime.utcfromtimestamp(0)
Epoch == [day |-> 0, sec |-> 0, us |-> 0]

\* a - b for two naive datetimes: a normalised timedelta.
DatetimeSub(a, b) ==
  LET us0  == a.us - b.us
      us   == IF us0 < 0 THEN us0 + UsPerSecond ELSE us0
      sec0 == a.sec - b.sec - (IF us0 < 0 THEN 1 ELSE 0)
      sec  == IF sec0 < 0 THEN sec0 + SecondsPerDay ELSE sec0
      day  == a.day - b.day - (IF sec0 < 0 THEN 1 ELSE 0)
  IN  [days |-> day, seconds |-> sec, microseconds |-> us]

\* timedelta.total_seconds(): the double nearest to
\* (days * 86400 + seconds) + microseconds / 10^6, as [neg, whole, frac]:
\* its sign, the whole part of its magnitude, and whether a fraction is left.
TotalSeconds(td) ==
  IF td.days >= 0
  THEN LET m  == BigOfDaySec(td.days, td.seconds)
           up == /\ td.microseconds > 0
                 /\ UsPerSecond - td.microseconds <= HalfUlpMicros(FloatExponent(m))
       IN  [neg |-> FALSE,
            whole |-> IF up THEN BigSucc(m) ELSE m,
            frac |-> td.microseconds > 0 /\ ~up]
  ELSE LET m    == BigOfDaySec(-td.days - 1, SecondsPerDay - td.seconds)
           m1   == BigPred(m)
           down == td.microseconds <= HalfUlpMicros(FloatExponent(m1))
       IN  IF td.microseconds = 0 \/ down
           THEN [neg |-> TRUE, whole |-> m, frac |-> FALSE]
           ELSE [neg |-> TRUE, whole |-> m1, frac |-> TRUE]

\* int(f): the fraction is dropped (truncation toward zero).
IntTrunc(f) ==
  Big(f.neg /\ (f.whole.hi > 0 \/ f.whole.lo > 0), f.whole.hi, f.whole.lo)

\* int((expiration_time - epoch).total_seconds())
ExpirationTimestamp(expiration_time, epoch) ==
  IntTrunc(TotalSeconds(DatetimeSub(expiration_time, epoch)))

\* str(n) for a machine number n >= 0.
RECURSIVE NatStr(_)
NatStr(n) ==
  IF n < 10 THEN <<Digits[n + 1]>> ELSE NatStr(n \div 10) \o <<Digits[(n % 10) + 1]>>

\* The digits of n < 10^w, zero-filled to width w.
RECURSIVE ZeroFill(_, _)
ZeroFill(n, w) ==
  IF w = 0 THEN <<>> ELSE ZeroFill(n \div 10, w - 1) \o <<Digits[(n % 10) + 1]>>

\* str(n) for an integer n, as '{expires}'.format(...) writes it.
IntStr(n) ==
  (IF n.neg THEN <<"-">> ELSE <<>>)
    \o (IF n.hi = 0 THEN NatStr(n.lo) ELSE NatStr(n.hi) \o ZeroFill(n.lo, 7))


(***************************************************************************)
(* base64, UTF-8 and HMAC                                                  *)
(***************************************************************************)

\* The standard base64 alphabet, values 0..63 in order.
B64Alphabet ==
  <<"A","B","C","D","E","F","G","H","I","J","K","L","M","N","O","P","Q",
    "R","S","T","U","V","W","X","Y","Z",
    "a","b","c","d","e","f","g","h","i","j","k","l","m","n","o","p","q",
    "r","s","t","u","v","w","x","y","z",
    "0","1","2","3","4","5","6","7","8","9","+","/">>

B64Pad == "="

\* The translation urlsafe_b64decode applies before decoding and
\* urlsafe_b64encode applies after encoding.
UrlsafeToStd(c) == IF c = "-" THEN "+" ELSE IF c = "_" THEN "/" ELSE c

StdToUrlsafe(c) == IF c = "+" THEN "-" ELSE IF c = "/" THEN "_" ELSE c

IsB64Data(c) == c \in Range(B64Alphabet)

B64Value(c) == (CHOOSE i \in 1..64 : B64Alphabet[i] = c) - 1

\* binascii.a2b_base64(s) in its default, non-strict mode, from position i
\* with quad_pos q, leftchar l, pads p and the bytes out decoded so far.
\* A character outside the alphabet is skipped; a pad sequence that completes
\* a group ends the decoding; data left in an incomplete group is an error.
RECURSIVE A2bBase64(_, _, _, _, _, _)
A2bBase64(s, i, q, l, p, out) ==
  IF i > Len(s)
  THEN [ok |-> q = 0, bytes |-> out]
  ELSE IF s[i] = B64Pad
  THEN IF q >= 2 /\ q + p + 1 >= 4
       THEN [ok |-> TRUE, bytes |-> out]
       ELSE A2bBase64(s, i + 1, q, l, IF q >= 2 THEN p + 1 ELSE p, out)
  ELSE IF ~IsB64Data(s[i])
  THEN A2bBase64(s, i + 1, q, l, p, out)
  ELSE LET v == B64Value(s[i])
       IN  CASE q = 0 -> A2bBase64(s, i + 1, 1, v, 0, out)
             [] q = 1 -> A2bBase64(s, i + 1, 2, v % 16, 0,
                                   Append(out, l * 4 + (v \div 16)))
             [] q = 2 -> A2bBase64(s, i + 1, 3, v % 4, 0,
                                   Append(out, l * 16 + (v \div 4)))
             [] q = 3 -> A2bBase64(s, i + 1, 0, 0, 0, Append(out, l * 64 + v))

\* base64.urlsafe_b64decode(s) for a str s: [ok, exc, bytes].  A str that is
\* not ASCII raises ValueError; a wrongly padded one raises binascii.Error.
UrlsafeB64Decode(s) ==
  IF \E i \in 1..Len(s) : ~IsAscii(s[i])
  THEN [ok |-> FALSE, exc |-> "ValueError", bytes |-> <<>>]
  ELSE LET t == [i \in 1..Len(s) |-> UrlsafeToStd(s[i])]
           r == A2bBase64(t, 1, 0, 0, 0, <<>>)
       IN  IF r.ok
           THEN [ok |-> TRUE, exc |-> "none", bytes |-> r.bytes]
           ELSE [ok |-> FALSE, exc |-> "binascii.Error", bytes |-> <<>>]

\* binascii.b2a_base64(b, newline=False): three bytes give four characters,
\* and the last group is padded with "=".
RECURSIVE B2aBase64(_, _)
B2aBase64(b, i) ==
  LET n == Len(b) - i + 1
      c(v) == B64Alphabet[v + 1]
  IN  IF n <= 0 THEN <<>>
      ELSE IF n = 1
      THEN <<c(b[i] \div 4), c((b[i] % 4) * 16), B64Pad, B64Pad>>
      ELSE IF n = 2
      THEN <<c(b[i] \div 4), c((b[i] % 4) * 16 + (b[i + 1] \div 16)),
             c((b[i + 1] % 16) * 4), B64Pad>>
      ELSE <<c(b[i] \div 4), c((b[i] % 4) * 16 + (b[i + 1] \div 16)),
             c((b[i + 1] % 16) * 4 + (b[i + 2] \div 64)), c(b[i + 2] % 64)>>
             \o B2aBase64(b, i + 3)

\* base64.urlsafe_b64encode(b).decode('utf-8')
UrlsafeB64Encode(b) ==
  LET e == B2aBase64(b, 1) IN [i \in 1..Len(e) |-> StdToUrlsafe(e[i])]

\* The code point of a character.
CodePoint(c) == Ord(c)

\* One character's UTF-8 bytes (code points below 2048).
Utf8Char(c) ==
  LET cp == CodePoint(c)
  IN  IF cp < 128 THEN <<cp>> ELSE <<192 + (cp \div 64), 128 + (cp % 64)>>

\* s[lo..hi].encode('utf-8'), by halves.
RECURSIVE Utf8Range(_, _, _)
Utf8Range(s, lo, hi) ==
  IF lo > hi THEN <<>>
  ELSE IF lo = hi THEN Utf8Char(s[lo])
  ELSE LET mid == (lo + hi) \div 2
       IN  Utf8Range(s, lo, mid) \o Utf8Range(s, mid + 1, hi)

\* s.encode('utf-8')
Utf8Encode(s) == Utf8Range(s, 1, Len(s))

\* hashlib.sha1().digest_size
Sha1DigestSize == 20

\* hmac.new(key, msg, hashlib.sha1).digest().  SHA-1 itself is library code
\* and is not reproduced bit for bit: the digest is a keyed mix of the key,
\* its length and every byte of the message, Sha1DigestSize bytes long: byte
\* i is Absorb(i, key, length, message...) modulo 256, where Absorb folds
\* acc * 31 + b + 1 (modulo the prime MixModulus) over the bytes.
MixModulus == 32749

Mix(acc, b) == (acc * 31 + b + 1) % MixModulus

\* The fold of Mix over bytes[lo..hi] from 0, with 31^(hi-lo+1), by halves.
RECURSIVE Poly(_, _, _)
Poly(bytes, lo, hi) ==
  IF lo > hi THEN [v |-> 0, p |-> 1]
  ELSE IF lo = hi THEN [v |-> (bytes[lo] + 1) % MixModulus, p |-> 31]
  ELSE LET mid == (lo + hi) \div 2
           l   == Poly(bytes, lo, mid)
           r   == Poly(bytes, mid + 1, hi)
       IN  [v |-> (l.v * r.p + r.v) % MixModulus, p |-> (l.p * r.p) % MixModulus]

\* The fold of Mix over bytes, from acc.
Absorb(acc, bytes) ==
  LET q == Poly(bytes, 1, Len(bytes)) IN (acc * q.p + q.v) % MixModulus

HmacSha1(key, msg) ==
  LET k == Poly(key, 1, Len(key))
      m == Poly(msg, 1, Len(msg))
      fold(acc, q) == (acc * q.p + q.v) % MixModulus
  IN  [i \in 1..Sha1DigestSize |->
         fold(Mix(fold(i, k), Len(key)), m) % 256]

(***************************************************************************)
(* The command line: float(d) and datetime.utcfromtimestamp                *)
(***************************************************************************)

\* The number a sequence of decimal digits writes (below 2^31).
RECURSIVE NatOfDigits(_, _)
NatOfDigits(ds, acc) ==
  IF ds = <<>> THEN acc ELSE NatOfDigits(Tail(ds), acc * 10 + DigitValue(Head(ds)))

\* float(d) for a plain decimal numeral, [ok, neg, whole, frac]: ok is FALSE
\* where float raises ValueError; frac holds the digits after the point.
\* float strips surrounding whitespace and takes one sign.  Exponent
\* notation, "inf", "nan" and digit-grouping underscores are outside the
\* model: no argument drawn uses them.
ParseFloat(d) ==
  LET t      == Strip(d)
      signed == t # <<>> /\ Head(t) \in {"-", "+"}
      body   == IF signed THEN Tail(t) ELSE t
      parts  == Split(body, ".")
      whole  == parts[1]
      frac   == IF Len(parts) = 2 THEN parts[2] ELSE <<>>
      ok     == /\ Len(parts) <= 2
                /\ \A i \in 1..Len(whole) : IsDigit(whole[i])
                /\ \A i \in 1..Len(frac) : IsDigit(frac[i])
                /\ Len(whole) + Len(frac) > 0
  IN  [ok |-> ok,
       neg |-> signed /\ Head(t) = "-",
       whole |-> IF ok THEN NatOfDigits(whole, 0) ELSE 0,
       frac |-> IF ok THEN frac ELSE <<>>]

\* The microseconds utcfromtimestamp takes from the fraction of its float:
\* round(frac * 10^6), half to even.  A double below 2^31 holds seven
\* fractional digits closely enough that the seventh digit decides the
\* rounding; a seventh digit of exactly 5 (a tie decided by the double's last
\* bits) and further digits are outside the model.
FracMicros(frac) ==
  LET six == [i \in 1..6 |-> IF i <= Len(frac) THEN frac[i] ELSE "0"]
      d7  == IF Len(frac) >= 7 THEN DigitValue(frac[7]) ELSE 0
  IN  NatOfDigits(six, 0) + (IF d7 > 5 THEN 1 ELSE 0)

\* datetime.utcfromtimestamp(f): [ok, value]; ok is FALSE where it raises
\* ValueError (a year outside 1..9999).
UtcFromTimestamp(f) ==
  LET micros == FracMicros(f.frac)
      carry  == micros \div UsPerSecond
      us0    == micros % UsPerSecond
      mag    == f.whole + carry
      secs   == IF ~f.neg THEN mag ELSE IF us0 = 0 THEN -mag ELSE -mag - 1
      us     == IF f.neg /\ us0 > 0 THEN UsPerSecond - us0 ELSE us0
      day    == secs \div SecondsPerDay
  IN  [ok |-> day >= MinDay /\ day <= MaxDay,
       value |-> [day |-> day, sec |-> secs % SecondsPerDay, us |-> us]]

\* type=lambda d: datetime.datetime.utcfromtimestamp(float(d)), under
\* argparse: a ValueError of the conversion is an argument error.
ExpirationTimeType(d) ==
  LET f == ParseFloat(d)
      t == UtcFromTimestamp(f)
  IN  IF f.ok /\ t.ok THEN [ok |-> TRUE, value |-> t.value]
      ELSE [ok |-> FALSE, value |-> [day |-> 0, sec |-> 0, us |-> 0]]


(***************************************************************************)
(* sign_url (src/cdn/snippets.py, lines 34-70)                             *)
(***************************************************************************)

\* 'Expires='
ExpiresLabel ==
  <<"E","x","p","i","r","e","s","=">>

\* '&KeyName='
KeyNameLabel ==
  <<"&","K","e","y","N","a","m","e","=">>

\* '&Signature='
SignatureLabel ==
  <<"&","S","i","g","n","a","t","u","r","e","=">>

\* '&' if query_params else '?'
Separator(query_params) == IF query_params # <<>> THEN <<"&">> ELSE <<"?">>

\* A plausible slip: KeyName written before Expires.
UrlToSignKeyNameFirst(url, separator, expires, key_name) ==
  url \o separator \o Tail(KeyNameLabel) \o key_name \o <<"&">> \o ExpiresLabel
      \o expires

\* u'{url}{separator}Expires={expires}&KeyName={key_name}'.format(...)
UrlToSign(url, separator, expires, key_name) ==
  url \o separator \o ExpiresLabel \o expires \o KeyNameLabel \o key_name

\* hmac.new(decoded_key, url_to_sign.encode('utf-8'), hashlib.sha1).digest()
Digest(decoded_key, url_to_sign) == HmacSha1(decoded_key, Utf8Encode(url_to_sign))

\* A plausible slip: base64.b64encode, which leaves "+" and "/" in place.
SignatureStandardAlphabet(digest) == B2aBase64(digest, 1)

\* A plausible slip: the padding is stripped from the signature.
SignatureUnpadded(digest) == SelectSeq(UrlsafeB64Encode(digest), LAMBDA c : c # B64Pad)

\* base64.urlsafe_b64encode(digest).decode('utf-8')
Signature(digest) == UrlsafeB64Encode(digest)

\* u'{url}&Signature={signature}'.format(...)
SignedUrl(url_to_sign, signature) == url_to_sign \o SignatureLabel \o signature


\* The order of sign_url's statements, by the line each group starts at:
\* strip, split and parse (47), timestamp (51), key (53), url_to_sign (55),
\* digest and signature (63), signed_url and print (67).
SignUrlNext(at) ==
  CASE at = "L47" -> "L51"
    [] at = "L51" -> "L53"
    [] at = "L53" -> "L55"
    [] at = "L55" -> "L63"
    [] at = "L63" -> "L67"
    [] at = "L67" -> "returned"

(***************************************************************************)
(* The values the model draws                                              *)
(***************************************************************************)

\* 'https://example.com/path'
UrlPath ==
  <<"h","t","t","p","s",":","/","/","e","x","a","m","p","l","e",".","c","o",
    "m","/","p","a","t","h">>

\* 'https://example.com/path?a=1'
UrlPathQuery ==
  <<"h","t","t","p","s",":","/","/","e","x","a","m","p","l","e",".","c","o",
    "m","/","p","a","t","h","?","a","=","1">>

\* 'https://example.com/path?&'
UrlPathAmp ==
  <<"h","t","t","p","s",":","/","/","e","x","a","m","p","l","e",".","c","o",
    "m","/","p","a","t","h","?","&">>

\* 'https://example.com/path?'
UrlPathEmptyQuery ==
  <<"h","t","t","p","s",":","/","/","e","x","a","m","p","l","e",".","c","o",
    "m","/","p","a","t","h","?">>

\* 'https://example.com/objects/dog.png'
UrlDog ==
  <<"h","t","t","p","s",":","/","/","e","x","a","m","p","l","e",".","c","o",
    "m","/","o","b","j","e","c","t","s","/","d","o","g",".","p","n","g">>

\* 'http://h/p#f?a=1'
UrlFragmentQuery ==
  <<"h","t","t","p",":","/","/","h","/","p","#","f","?","a","=","1">>

\* 'http://h/p?a=1#f'
UrlQueryFragment ==
  <<"h","t","t","p",":","/","/","h","/","p","?","a","=","1","#","f">>

\* 'http://[::1/p'
UrlBadIPv6 ==
  <<"h","t","t","p",":","/","/","[",":",":","1","/","p">>

\* 'http://[::1]/p?x'
UrlIPv6 ==
  <<"h","t","t","p",":","/","/","[",":",":","1","]","/","p","?","x">>

\* 'h?b&Signature=Zm9v'
UrlWithSignature ==
  <<"h","?","b","&","S","i","g","n","a","t","u","r","e","=","Z","m","9",
    "v">>

\* '\t\nhttps://example.com/path?a=1 \n'
UrlTabbed ==
  <<"\t","\n","h","t","t","p","s",":","/","/","e","x","a","m","p","l","e",
    ".","c","o","m","/","p","a","t","h","?","a","=","1"," ","\n">>

\* 'my-key'
KeyNameMyKey ==
  <<"m","y","-","k","e","y">>

\* 'ké'
KeyNameNonAscii ==
  <<"k","U+00E9">>

\* 'k&Signature=x'
KeyNameInjected ==
  <<"k","&","S","i","g","n","a","t","u","r","e","=","x">>

\* 'nZtRohdNCWBsDuP5xDZ1Tg=='
KeySpec ==
  <<"n","Z","t","R","o","h","d","N","C","W","B","s","D","u","P","5","x","D",
    "Z","1","T","g","=","=">>

\* 'not-valid-base64!!'
KeyNotValid ==
  <<"n","o","t","-","v","a","l","i","d","-","b","a","s","e","6","4","!",
    "!">>

\* 'nZtRohdNCWBsDuP5xDZ1Tg'
KeyUnpadded ==
  <<"n","Z","t","R","o","h","d","N","C","W","B","s","D","u","P","5","x","D",
    "Z","1","T","g">>

\* 'a'
KeyOneChar ==
  <<"a">>

\* 'ab=='
KeyShort ==
  <<"a","b","=","=">>

\* 'abé='
KeyNonAscii ==
  <<"a","b","U+00E9","=">>

\* 'nZtR ohdNCWBsDuP5xDZ1Tg=='
KeySpaced ==
  <<"n","Z","t","R"," ","o","h","d","N","C","W","B","s","D","u","P","5","x",
    "D","Z","1","T","g","=","=">>

\* 'ab=c'
KeyPadInside ==
  <<"a","b","=","c">>

\* 'sign-url'
SignUrlCommand ==
  <<"s","i","g","n","-","u","r","l">>

\* '2147483647'
Arg2147483647 ==
  <<"2","1","4","7","4","8","3","6","4","7">>

\* '1.5'
ArgOneAndHalf ==
  <<"1",".","5">>

\* '-1.5'
ArgMinusOneAndHalf ==
  <<"-","1",".","5">>

\* 'abc'
ArgNotNumber ==
  <<"a","b","c">>

\* '1.9999999'
ArgNearlyTwo ==
  <<"1",".","9","9","9","9","9","9","9">>

\* '1'
ArgOne ==
  <<"1">>

\* The most whitespace added on each side of a URL.
MaxPad == 1

Spaces(n) == [i \in 1..n |-> " "]

Urls ==
  { UrlPath, UrlPathQuery, UrlPathAmp, UrlPathEmptyQuery, UrlDog,
    UrlFragmentQuery, UrlQueryFragment, UrlBadIPv6, UrlIPv6, UrlWithSignature,
    UrlTabbed }

PaddedUrls ==
  { Spaces(l) \o u \o Spaces(r) :
      l \in 0..MaxPad, r \in 0..MaxPad, u \in {UrlPath, UrlPathQuery} }

KeyNames == { KeyNameMyKey, KeyNameNonAscii, KeyNameInjected }

Keys ==
  { KeySpec, KeyNotValid, KeyUnpadded, KeyOneChar, KeyShort, KeyNonAscii,
    KeySpaced, KeyPadInside, <<>> }

Datetime(day, sec, us) == [day |-> day, sec |-> sec, us |-> us]

\* 2038-01-19 03:14:07, 2147483647 seconds after the epoch.
Exp2038 == Datetime(24855, 11647, 0)

Expirations ==
  { Exp2038,
    Datetime(24855, 11647, 999999),
    Datetime(0, 0, 0),                     \* the epoch
    Datetime(0, 1, 0),
    Datetime(0, 1, 500000),                \* 1.5 s after the epoch
    Datetime(-1, 86398, 0),
    Datetime(-1, 86398, 500000),           \* 1.5 s before the epoch
    Datetime(200883, 0, 0),                \* 2520-01-01 00:00:00
    Datetime(200883, 0, 999999) }          \* 2520-01-01 00:00:00.999999

\* The offsets of the process's local time zone from UTC, in seconds.
TzOffsets == { 0, 3600 }

Args(url, key_name, base64_key, expiration_time) ==
  [url |-> url, key_name |-> key_name, base64_key |-> base64_key,
   expiration_time |-> expiration_time]

NoArgs == Args(<<>>, <<>>, <<>>, Datetime(0, 0, 0))

\* The calls of sign_url a caller makes, each with the time zone of its
\* process.
Calls ==
  { <<Args(u, KeyNameMyKey, KeySpec, Exp2038), 0>> : u \in Urls \cup PaddedUrls }
  \cup { <<Args(UrlPath, n, KeySpec, Exp2038), 0>> : n \in KeyNames }
  \cup { <<Args(u, KeyNameMyKey, k, Exp2038), 0>> :
           u \in {UrlPath, UrlBadIPv6}, k \in Keys }
  \cup { <<Args(UrlPath, KeyNameMyKey, KeySpec, e), 0>> : e \in Expirations }
  \cup { <<Args(UrlPath, KeyNameMyKey, KeySpec, Exp2038), z>> : z \in TzOffsets }

\* The command lines, without the program's name.
CommandLines ==
  { <<>>,
    <<KeyNameMyKey>>,
    <<SignUrlCommand, UrlPath, KeyNameMyKey, KeySpec>>,
    <<SignUrlCommand, UrlPath, <<"-", "k">>, KeySpec, ArgOne>>,
    <<SignUrlCommand, KeySpec, KeyNameMyKey, KeySpec, Arg2147483647>> }
  \cup { <<SignUrlCommand, u, KeyNameMyKey, KeySpec, Arg2147483647>> :
           u \in {UrlPath, UrlPathQuery, UrlBadIPv6, Spaces(MaxPad) \o UrlPath} }
  \cup { <<SignUrlCommand, UrlPath, KeyNameMyKey, k, Arg2147483647>> :
           k \in {KeyNotValid, KeyUnpadded} }
  \cup { <<SignUrlCommand, UrlPath, KeyNameMyKey, KeySpec, e>> :
           e \in {ArgOne, ArgOneAndHalf, ArgMinusOneAndHalf, ArgNearlyTwo,
                  ArgNotNumber} }

(***************************************************************************)
(* State                                                                   *)
(***************************************************************************)

vars == <<cdnVars, threadVars, counterVars, imageVars, uploadVars, sqlVars, memcacheVars, datastoreVars, slackVars>>

NoFrame ==
  [stripped_url |-> <<>>, query_params |-> <<>>,
   expiration_timestamp |-> Big(FALSE, 0, 0), decoded_key |-> <<>>,
   url_to_sign |-> <<>>, digest |-> <<>>, signature |-> <<>>,
   signed_url |-> <<>>]

Unset == [kind |-> "unset", value |-> <<>>]

ReturnNone == [kind |-> "None", value |-> <<>>]

Summary ==
  [caller |-> caller, argv |-> argv, args |-> args, tz |-> tz,
   stdout |-> stdout, stderr |-> stderr, exc |-> exc, ret |-> ret,
   exit |-> exit, hmacCalls |-> hmacCalls]

\* A run is over: nothing of it remains to execute.
Finished ==
  \/ pc = "exited"
  \/ caller = "api" /\ pc \in {"returned", "raised"}

\* No caller has run sign_url or its command line.
CdnInit ==
  /\ pc = "idle"
  /\ caller = "none"
  /\ argv = <<>>
  /\ args = NoArgs
  /\ tz = 0
  /\ frame = NoFrame
  /\ stdout = <<>>
  /\ stderr = <<>>
  /\ exc = "none"
  /\ ret = Unset
  /\ exit = -1
  /\ hmacCalls = 0
  /\ prev = Summary

\* No thread has called sign_url.
ThreadsIdle ==
  /\ tpc = [t \in Threads |-> "idle"]
  /\ targs = [t \in Threads |-> NoArgs]
  /\ tsigned = [t \in Threads |-> <<>>]
  /\ written = <<>>

Init == CdnInit /\ ThreadsIdle /\ CounterIdle /\ ImageIdle /\ UploadIdle /\ SqlIdle /\ MemcacheIdle /\ DatastoreIdle /\ SlackIdle

\* What every run starts from.
Fresh ==
  /\ prev' = Summary
  /\ frame' = NoFrame
  /\ stdout' = <<>>
  /\ stderr' = <<>>
  /\ exc' = "none"
  /\ ret' = Unset
  /\ exit' = -1
  /\ hmacCalls' = 0

(***************************************************************************)
(* Actions                                                                 *)
(***************************************************************************)

\* A caller calls sign_url(url, key_name, base64_key, expiration_time).
CallSignUrl ==
  /\ UNCHANGED notCdnVars
  /\ pc = "idle" \/ Finished
  /\ \E c \in Calls :
       /\ args' = c[1]
       /\ tz' = c[2]
  /\ caller' = "api"
  /\ argv' = <<>>
  /\ pc' = "L47"
  /\ Fresh

\* Lines 47-50: strip the URL, split it and parse its query.
StripAndSplit ==
  /\ UNCHANGED notCdnVars
  /\ pc = "L47"
  /\ LET stripped_url == Strip(args.url)
         parsed_url   == UrlSplit(stripped_url)
     IN  IF parsed_url.ok
         THEN /\ frame' = [frame EXCEPT !.stripped_url = stripped_url,
                                        !.query_params = ParseQs(parsed_url.query)]
              /\ pc' = SignUrlNext("L47")
              /\ exc' = exc
         ELSE /\ frame' = [frame EXCEPT !.stripped_url = stripped_url]
              /\ pc' = "raised"
              /\ exc' = "ValueError"
  /\ UNCHANGED <<caller, argv, args, tz, stdout, stderr, ret, exit, hmacCalls, prev>>

\* Lines 51-52: the expiration as whole seconds since the epoch.
ComputeTimestamp ==
  /\ UNCHANGED notCdnVars
  /\ pc = "L51"
  /\ frame' = [frame EXCEPT !.expiration_timestamp =
                              ExpirationTimestamp(args.expiration_time, Epoch)]
  /\ pc' = SignUrlNext("L51")
  /\ UNCHANGED <<caller, argv, args, tz, stdout, stderr, exc, ret, exit, hmacCalls, prev>>

\* Line 53: decode the key.
DecodeKey ==
  /\ UNCHANGED notCdnVars
  /\ pc = "L53"
  /\ LET decoded == UrlsafeB64Decode(args.base64_key)
     IN  IF decoded.ok
         THEN /\ frame' = [frame EXCEPT !.decoded_key = decoded.bytes]
              /\ pc' = SignUrlNext("L53")
              /\ exc' = exc
         ELSE /\ frame' = frame
              /\ pc' = "raised"
              /\ exc' = decoded.exc
  /\ UNCHANGED <<caller, argv, args, tz, stdout, stderr, ret, exit, hmacCalls, prev>>

\* Lines 55-61: the string to sign.
FormatUrlToSign ==
  /\ UNCHANGED notCdnVars
  /\ pc = "L55"
  /\ frame' = [frame EXCEPT !.url_to_sign =
                 UrlToSign(frame.stripped_url, Separator(frame.query_params),
                           IntStr(frame.expiration_timestamp), args.key_name)]
  /\ pc' = SignUrlNext("L55")
  /\ UNCHANGED <<caller, argv, args, tz, stdout, stderr, exc, ret, exit, hmacCalls, prev>>

\* Lines 63-65: the digest and its encoding.
ComputeSignature ==
  /\ UNCHANGED notCdnVars
  /\ pc = "L63"
  /\ LET digest == Digest(frame.decoded_key, frame.url_to_sign)
     IN  frame' = [frame EXCEPT !.digest = digest, !.signature = Signature(digest)]
  /\ hmacCalls' = hmacCalls + 1
  /\ pc' = SignUrlNext("L63")
  /\ UNCHANGED <<caller, argv, args, tz, stdout, stderr, exc, ret, exit, prev>>

\* Lines 67-70: the signed URL is printed; the function ends without a
\* return statement, so it returns None.
PrintSignedUrl ==
  /\ UNCHANGED notCdnVars
  /\ pc = "L67"
  /\ LET signed_url == SignedUrl(frame.url_to_sign, frame.signature)
     IN  /\ frame' = [frame EXCEPT !.signed_url = signed_url]
         /\ stdout' = Append(stdout, signed_url)
  /\ ret' = ReturnNone
  /\ pc' = SignUrlNext("L67")
  /\ UNCHANGED <<caller, argv, args, tz, stderr, exc, exit, hmacCalls, prev>>


(***************************************************************************)
(* __main__ (src/cdn/snippets.py, lines 74-101)                            *)
(***************************************************************************)

\* argparse's test for a negative number: '^-\d+$|^-\d*\.\d+$'.
LooksNegativeNumber(a) ==
  /\ Len(a) >= 2
  /\ a[1] = "-"
  /\ LET parts == Split(Tail(a), ".")
     IN  \/ Len(parts) = 1 /\ \A i \in 1..Len(parts[1]) : IsDigit(parts[1][i])
         \/ /\ Len(parts) = 2
            /\ parts[2] # <<>>
            /\ \A k \in 1..2 : \A i \in 1..Len(parts[k]) : IsDigit(parts[k][i])

\* Whether argparse reads a command-line word as a positional argument: the
\* parser defines no option but -h, so a word that starts with "-" is an
\* option (and an error) unless it is "-" alone, a negative number, or holds
\* a space.
IsPositional(a) ==
  \/ a = <<>>
  \/ a[1] # "-"
  \/ Len(a) = 1
  \/ LooksNegativeNumber(a)
  \/ " " \in Range(a)

\* A plausible slip: url and key_name passed in the wrong order.
SignUrlArgsSwapped(url, key_name, base64_key, expiration_time) ==
  Args(key_name, url, base64_key, expiration_time)

\* Lines 100-101: sign_url(args.url, args.key_name, args.base64_key,
\* args.expiration_time)
SignUrlArgs(url, key_name, base64_key, expiration_time) ==
  Args(url, key_name, base64_key, expiration_time)

\* parse_args accepts the command line av: the sign-url command, its four
\* positional arguments and an expiration_time its type converts.
ParsesAsSignUrl(av) ==
  /\ Len(av) = 5
  /\ av[1] = SignUrlCommand
  /\ \A i \in 2..5 : IsPositional(av[i])
  /\ ExpirationTimeType(av[5]).ok

\* The program is started with a command line.
Main ==
  /\ UNCHANGED notCdnVars
  /\ pc = "idle" \/ Finished
  /\ \E av \in CommandLines : argv' = av
  /\ \E z \in TzOffsets : tz' = z
  /\ caller' = "cli"
  /\ args' = NoArgs
  /\ pc' = "argparse"
  /\ Fresh

\* Lines 75-97: parser.parse_args() ends the program with status 2 and a
\* usage message on an unknown command, a missing or surplus argument or an
\* expiration_time its type rejects.
ParseArgsError ==
  /\ UNCHANGED notCdnVars
  /\ pc = "argparse"
  /\ argv # <<>>
  /\ ~ParsesAsSignUrl(argv)
  /\ stderr' = Append(stderr, "usage")
  /\ exit' = 2
  /\ pc' = "exited"
  /\ UNCHANGED <<caller, argv, args, tz, frame, stdout, exc, ret, hmacCalls, prev>>

\* Lines 97-99 without a command: args.command is None, nothing is called
\* and the program ends.
ParseArgsNoCommand ==
  /\ UNCHANGED notCdnVars
  /\ pc = "argparse"
  /\ argv = <<>>
  /\ exit' = 0
  /\ pc' = "exited"
  /\ UNCHANGED <<caller, argv, args, tz, frame, stdout, stderr, exc, ret, hmacCalls, prev>>

\* Lines 97-101: the command is sign-url; its four arguments are passed to
\* sign_url in the order url, key_name, base64_key, expiration_time.
ParseArgsSignUrl ==
  /\ UNCHANGED notCdnVars
  /\ pc = "argparse"
  /\ ParsesAsSignUrl(argv)
  /\ args' = SignUrlArgs(argv[2], argv[3], argv[4], ExpirationTimeType(argv[5]).value)
  /\ pc' = "L47"
  /\ UNCHANGED <<caller, argv, tz, frame, stdout, stderr, exc, ret, exit, hmacCalls, prev>>

\* sign_url has returned to __main__, which ends: exit status 0.
MainExit ==
  /\ UNCHANGED notCdnVars
  /\ caller = "cli"
  /\ pc = "returned"
  /\ exit' = 0
  /\ pc' = "exited"
  /\ UNCHANGED <<caller, argv, args, tz, frame, stdout, stderr, exc, ret, hmacCalls, prev>>

\* A __main__ that catches the exception of sign_url and ends normally.
MainSwallowsException ==
  /\ UNCHANGED notCdnVars
  /\ caller = "cli"
  /\ pc = "raised"
  /\ exit' = 0
  /\ pc' = "exited"
  /\ UNCHANGED <<caller, argv, args, tz, frame, stdout, stderr, exc, ret, hmacCalls, prev>>

\* An exception of sign_url reaches the top of the program, which has no
\* handler: a traceback on standard error and exit status 1.
MainUncaught ==
  /\ UNCHANGED notCdnVars
  /\ caller = "cli"
  /\ pc = "raised"
  /\ stderr' = Append(stderr, "traceback")
  /\ exit' = 1
  /\ pc' = "exited"
  /\ UNCHANGED <<caller, argv, args, tz, frame, stdout, exc, ret, hmacCalls, prev>>

Next ==
  \/ CallSignUrl
  \/ Main
  \/ ParseArgsError
  \/ ParseArgsNoCommand
  \/ ParseArgsSignUrl
  \/ StripAndSplit
  \/ ComputeTimestamp
  \/ DecodeKey
  \/ FormatUrlToSign
  \/ ComputeSignature
  \/ PrintSignedUrl
  \/ MainExit
  \/ MainUncaught

Spec == Init /\ [][Next]_vars


(***************************************************************************)
(* Properties                                                              *)
(***************************************************************************)

\* sign_url has run to its end and returned.
SignUrlReturned == pc = "returned" \/ (pc = "exited" /\ exit = 0 /\ argv # <<>>)

\* sign_url has ended, by returning or by raising.
SignUrlEnded == SignUrlReturned \/ exc # "none"

\* The URL-safe base64 alphabet.
UrlsafeAlphabet == (Range(B64Alphabet) \ {"+", "/"}) \cup {"-", "_"}

\* A decimal numeral of an integer.
IsNumeral(n) ==
  LET d == IF n # <<>> /\ n[1] = "-" THEN Tail(n) ELSE n
  IN  d # <<>> /\ \A i \in 1..Len(d) : IsDigit(d[i])

\* The length of the base64 text of a digest.
SignatureLen == 4 * ((Sha1DigestSize + 2) \div 3)

\* The text between "Expires=" and "&KeyName=" of a signed URL out made for
\* the URL u and the key name key_name.
ExpiresField(out, u, key_name) ==
  SubSeq(out, Len(u) + 2 + Len(ExpiresLabel),
         Len(out) - SignatureLen - Len(SignatureLabel) - Len(key_name)
           - Len(KeyNameLabel))

\* out is u, a separator, Expires=<N>, &KeyName=<key_name> and
\* &Signature=<sig>, in this order and with nothing else.
SignedUrlShape(out, u, key_name) ==
  LET tail == KeyNameLabel \o key_name \o SignatureLabel
      head == Len(u) + 1 + Len(ExpiresLabel)
      nEnd == Len(out) - SignatureLen - Len(tail)
      sig  == Drop(out, Len(out) - SignatureLen)
  IN  /\ nEnd > head
      /\ Take(out, Len(u)) = u
      /\ out[Len(u) + 1] \in {"?", "&"}
      /\ SubSeq(out, Len(u) + 2, head) = ExpiresLabel
      /\ IsNumeral(ExpiresField(out, u, key_name))
      /\ SubSeq(out, nEnd + 1, Len(out) - SignatureLen) = tail
      /\ \A i \in 1..Len(sig) : sig[i] \in UrlsafeAlphabet \cup {B64Pad}

\* C1: whenever sign_url returns it has produced exactly one string, and that
\* string is the stripped URL, a separator, Expires=<expiration seconds>,
\* &KeyName=<key_name> and &Signature=<signature>, in this order, with nothing
\* inserted, removed or reordered.
C1_SignedUrlFormat ==
  SignUrlReturned =>
    /\ Len(stdout) = 1
    /\ SignedUrlShape(stdout[1], Strip(args.url), args.key_name)
    /\ ExpiresField(stdout[1], Strip(args.url), args.key_name)
         = IntStr(frame.expiration_timestamp)

\* C1 happens: a call with a padded URL that has a query has returned.
C1_Witness ==
  /\ SignUrlReturned
  /\ caller = "api"
  /\ args.url # Strip(args.url)
  /\ frame.query_params # <<>>

\* C2: the character sign_url puts before Expires is "&" if the query string
\* of the (stripped) URL is non-empty, and "?" if it is empty.
C2_SeparatorByQueryString ==
  SignUrlReturned =>
    LET u == Strip(args.url)
    IN  stdout[1][Len(u) + 1] = (IF UrlSplit(u).query # <<>> THEN "&" ELSE "?")

\* The position of the last "&Signature=" of out; 0 if there is none.
LastSignatureLabel(out) ==
  LET n  == Len(SignatureLabel)
      at == { i \in 1..(Len(out) - n + 1) : SubSeq(out, i, i + n - 1) = SignatureLabel }
  IN  IF at = {} THEN 0 ELSE CHOOSE i \in at : \A j \in at : i >= j

\* The signature of out verifies under the base64 key key: the HMAC of the
\* UTF-8 bytes before the last "&Signature=", under the decoded key, is what
\* the text after it decodes to.
Verifies(out, key) ==
  LET i   == LastSignatureLabel(out)
      k   == UrlsafeB64Decode(key)
      sig == UrlsafeB64Decode(Drop(out, i + Len(SignatureLabel) - 1))
  IN  /\ i > 0
      /\ k.ok
      /\ sig.ok
      /\ sig.bytes = HmacSha1(k.bytes, Utf8Encode(Take(out, i - 1)))

\* C3: round trip.  For every signed URL sign_url produces, the HMAC-SHA1 of
\* the UTF-8 bytes of the part before "&Signature=", under the same decoded
\* key, equals the bytes the Signature parameter decodes to.
C3_RoundTrip == SignUrlReturned => Verifies(stdout[1], args.base64_key)

\* C3 happens: a URL that itself holds "&Signature=" has been signed.
C3_Witness == SignUrlReturned /\ args.url = UrlWithSignature

\* A key that is not canonical URL-safe base64: a character outside the
\* alphabet, a length that is no multiple of 4, or "=" anywhere but in the
\* last two places.
MalformedKey(k) ==
  \/ \E i \in 1..Len(k) : k[i] \notin UrlsafeAlphabet \cup {B64Pad}
  \/ Len(k) % 4 # 0
  \/ \E i \in 1..Len(k) : k[i] = B64Pad /\ (i < Len(k) - 1 \/ \E j \in i..Len(k) : k[j] # B64Pad)

DecodeErrors == {"binascii.Error", "ValueError"}

\* C4: whenever base64_key is malformed (a character outside the URL-safe
\* base64 alphabet, or incorrect padding), sign_url fails with a decode error
\* before any HMAC computation, and no signed URL is produced.  Stated for the
\* URLs that split, so that the key alone decides the outcome.
C4_MalformedKeyFails ==
  (SignUrlEnded /\ UrlSplit(Strip(args.url)).ok /\ MalformedKey(args.base64_key))
    => (exc \in DecodeErrors /\ hmacCalls = 0 /\ stdout = <<>>)

\* The run before this one was the same call.
SameCall == prev.caller = caller /\ prev.args = args /\ prev.argv = argv

\* C5: determinism.  Two invocations with the same (url, key_name,
\* base64_key, expiration_time) yield the same string, whatever was called
\* before and whatever the environment is.
C5_Deterministic ==
  (Finished /\ caller # "none" /\ SameCall) =>
    /\ prev.stdout = stdout
    /\ prev.exc = exc
    /\ prev.ret = ret
    /\ prev.exit = exit

\* C5 happens: the same call has been made twice, in two time zones.
C5_Witness ==
  /\ Finished
  /\ caller = "api"
  /\ SameCall
  /\ prev.tz # tz
  /\ stdout # <<>>

\* This call and the one before differ at most in expiration_time.
SameButExpiration ==
  /\ caller = "api"
  /\ prev.caller = "api"
  /\ prev.args.url = args.url
  /\ prev.args.key_name = args.key_name
  /\ prev.args.base64_key = args.base64_key

\* C6: truncation.  An expiration instant with a sub-second component gives
\* the same output as its floor in whole seconds: the instant with the same
\* day and second and no microseconds.
C6_Floor ==
  ( /\ Finished
    /\ SameButExpiration
    /\ prev.args.expiration_time.us > 0
    /\ args.expiration_time = [prev.args.expiration_time EXCEPT !.us = 0] )
  => stdout = prev.stdout

\* This call and the one before differ at most in url.
SameButUrl ==
  /\ caller = "api"
  /\ prev.caller = "api"
  /\ prev.args.key_name = args.key_name
  /\ prev.args.base64_key = args.base64_key
  /\ prev.args.expiration_time = args.expiration_time

\* v is u with whitespace added before and after.
IsWhitespacePadded(v, u) ==
  \E i \in 1..(Len(v) - Len(u) + 1) :
    /\ SubSeq(v, i, i + Len(u) - 1) = u
    /\ \A k \in (1..(i - 1)) \cup ((i + Len(u))..Len(v)) : IsSpace(v[k])

\* C7: whitespace around the url argument is stripped before any processing:
\* the call with whitespace + u + whitespace gives the same output as the
\* call with u, and the output does not begin with whitespace.
C7_StripsWhitespace ==
  ( /\ Finished
    /\ SameButUrl
    /\ IsWhitespacePadded(args.url, prev.args.url) \/ IsWhitespacePadded(prev.args.url, args.url) )
  => /\ stdout = prev.stdout
     /\ exc = prev.exc
     /\ stdout # <<>> => ~IsSpace(stdout[1][1])

\* C7 happens: a URL with whitespace on its right was signed after the URL
\* itself.
C7_Witness ==
  /\ Finished
  /\ SameButUrl
  /\ args.url # prev.args.url
  /\ IsWhitespacePadded(args.url, prev.args.url)
  /\ IsSpace(args.url[Len(args.url)])
  /\ stdout # <<>>

\* C8: signing is all-or-nothing.  Once sign_url has raised, nothing has been
\* written to standard output, nothing is returned, control never re-enters
\* sign_url (no retry, no recovery), and at the command line the exception
\* ends the program uncaught.
C8_AllOrNothing ==
  exc # "none" =>
    /\ stdout = <<>>
    /\ ret = Unset
    /\ pc \in {"raised", "exited"}
    /\ pc = "exited" => (exit = 1 /\ stderr = <<"traceback">>)

\* C8 happens: the command line was given a wrongly padded key and has ended.
C8_Witness ==
  /\ exc = "binascii.Error"
  /\ pc = "exited"
  /\ args.base64_key = KeyUnpadded

\* C9: sign_url returns the signed URL to its caller and does nothing else:
\* nothing is written to standard output.
C9_ReturnsSignedUrl ==
  pc = "returned" =>
    /\ ret = [kind |-> "str", value |-> frame.signed_url]
    /\ stdout = <<>>

\* The command line is sign-url with four arguments.
SignUrlCommandLine == caller = "cli" /\ Len(argv) = 5 /\ argv[1] = SignUrlCommand

\* C10 as claimed: the sign-url command with its four arguments and a valid
\* key prints the signed URL once and exits with status 0.
C10_ValidKeyPrintsAndExits ==
  (SignUrlCommandLine /\ pc = "exited" /\ UrlsafeB64Decode(argv[4]).ok)
    => (exit = 0 /\ Len(stdout) = 1)

\* C10, amended: the sign-url command with a key that decodes, a URL that
\* splits, an expiration_time that converts and no argument read as an option
\* prints the signed URL of exactly these arguments, once, and exits with
\* status 0.  The arguments are text that UTF-8 encodes.
C10_CommandPrintsSignedUrl ==
  ( /\ SignUrlCommandLine
    /\ pc = "exited"
    /\ UrlsafeB64Decode(argv[4]).ok
    /\ UrlSplit(Strip(argv[2])).ok
    /\ ExpirationTimeType(argv[5]).ok
    /\ \A i \in 2..5 : IsPositional(argv[i]) )
  => /\ exit = 0
     /\ stderr = <<>>
     /\ Len(stdout) = 1
     /\ SignedUrlShape(stdout[1], Strip(argv[2]), argv[3])
     /\ Verifies(stdout[1], argv[4])
     /\ (\A i \in 1..Len(argv[5]) : IsDigit(argv[5][i]))
          => ExpiresField(stdout[1], Strip(argv[2]), argv[3]) = argv[5]

\* C10 happens: the command has printed a signed URL and exited with 0.
C10_Witness ==
  /\ SignUrlCommandLine
  /\ pc = "exited"
  /\ exit = 0
  /\ argv[5] = Arg2147483647
  /\ stdout # <<>>


\* The name of a parameter, from its label in the signed URL.
ParameterName(label) ==
  SelectSeq(label, LAMBDA c : c \notin {"&", "="})

\* C11: the output has the stripped input URL as a prefix and, parsed again as
\* a URL, has Expires, KeyName and Signature as the last three parameters of
\* its query component, after the parameters the input URL had, which are
\* unchanged.
C11_ParametersInQuery ==
  SignUrlReturned =>
    LET u      == Strip(args.url)
        out    == stdout[1]
        before == ParseQs(UrlSplit(u).query)
        after  == ParseQs(UrlSplit(out).query)
        n      == Len(before)
    IN  /\ Take(out, Len(u)) = u
        /\ Len(after) = n + 3
        /\ SubSeq(after, 1, n) = before
        /\ after[n + 1][1] = ParameterName(ExpiresLabel)
        /\ after[n + 2][1] = ParameterName(KeyNameLabel)
        /\ after[n + 3][1] = ParameterName(SignatureLabel)

\* The authority of u, the text after "//" up to the next "/", "?" or "#",
\* holds "[" without "]" or "]" without "[": urlsplit raises ValueError.
UnbalancedAuthority(u) ==
  \E i \in 1..(Len(u) - 1) :
    /\ u[i] = "/" /\ u[i + 1] = "/"
    /\ \/ i = 1
       \/ /\ i > 2
          /\ u[i - 1] = ":"
          /\ IsAlpha(u[1])
          /\ \A k \in 1..(i - 2) : u[k] \in SchemeChars
    /\ LET stops == { j \in (i + 2)..Len(u) : u[j] \in {"/", "?", "#"} }
           stop  == IF stops = {} THEN Len(u) + 1
                    ELSE CHOOSE j \in stops : \A m \in stops : j <= m
           auth  == Range(SubSeq(u, i + 2, stop - 1))
       IN  ("[" \in auth) # ("]" \in auth)

\* C12: a url that cannot be split makes sign_url fail with the parse error
\* at once: the key has not been decoded, no HMAC has been computed, nothing
\* has been printed or returned, and this holds for a malformed key too.
C12_ParseErrorFirst ==
  (SignUrlEnded /\ UnbalancedAuthority(Strip(args.url))) =>
    /\ exc = "ValueError"
    /\ frame = [NoFrame EXCEPT !.stripped_url = Strip(args.url)]
    /\ hmacCalls = 0
    /\ stdout = <<>>
    /\ ret = Unset

\* C12 happens: a call with an unsplittable URL and a wrongly padded key has
\* raised.
C12_Witness ==
  /\ pc = "raised"
  /\ exc = "ValueError"
  /\ args.url = UrlBadIPv6
  /\ args.base64_key = KeyUnpadded

\* C14: the Expires value of every signed URL is a non-negative integer: a
\* numeral made of digits alone.
C14_ExpiresNonNegative ==
  SignUrlReturned =>
    LET n == ExpiresField(stdout[1], Strip(args.url), args.key_name)
    IN  n # <<>> /\ \A i \in 1..Len(n) : IsDigit(n[i])

\* C15: the sign-url command truncates a fractional expiration_time: run with
\* the expiration s.f, for a whole number s >= 0 and any fraction digits f, it
\* prints the same signed URL as the run before it with the expiration s.
C15_FractionTruncated ==
  ( /\ SignUrlCommandLine
    /\ pc = "exited"
    /\ prev.caller = "cli"
    /\ Len(prev.argv) = 5
    /\ \A i \in 1..4 : prev.argv[i] = argv[i]
    /\ prev.argv[5] # <<>>
    /\ \A i \in 1..Len(prev.argv[5]) : IsDigit(prev.argv[5][i])
    /\ Len(argv[5]) > Len(prev.argv[5]) + 1
    /\ Take(argv[5], Len(prev.argv[5]) + 1) = prev.argv[5] \o <<".">>
    /\ \A i \in (Len(prev.argv[5]) + 2)..Len(argv[5]) : IsDigit(argv[5][i]) )
  => /\ exit = 0
     /\ prev.exit = 0
     /\ stdout # <<>>
     /\ stdout = prev.stdout

\* The text after the last "&Signature=" of a signed URL.
SignatureOf(out) == Drop(out, LastSignatureLabel(out) + Len(SignatureLabel) - 1)

\* C16: the Signature value is 28 characters long, ends with exactly one "="
\* and has before it only A-Z, a-z, 0-9, "-" and "_".
C16_SignatureEncoding ==
  SignUrlReturned =>
    LET sig == SignatureOf(stdout[1])
    IN  /\ LastSignatureLabel(stdout[1]) > 0
        /\ Len(sig) = 28
        /\ sig[28] = "="
        /\ \A k \in 1..27 : sig[k] \in UrlsafeAlphabet

\* C16 happens: a digest whose standard base64 text holds "+" or "/" has been
\* encoded.
C16_Witness ==
  /\ SignUrlReturned
  /\ \E c \in Range(B2aBase64(frame.digest, 1)) : c \in {"+", "/"}


(***************************************************************************)
(* sign_url called by several threads                                      *)
(***************************************************************************)

\* Lines 47-68 of sign_url for the arguments a, which use nothing but the
\* arguments and local variables: the exception raised, or the signed URL.
SignUrlLines47To68(a) ==
  LET stripped_url == Strip(a.url)
      parsed_url   == UrlSplit(stripped_url)
      query_params == ParseQs(parsed_url.query)
      expiration_timestamp == ExpirationTimestamp(a.expiration_time, Epoch)
      decoded_key  == UrlsafeB64Decode(a.base64_key)
      url_to_sign  == UrlToSign(stripped_url, Separator(query_params),
                                IntStr(expiration_timestamp), a.key_name)
      signature    == Signature(Digest(decoded_key.bytes, url_to_sign))
  IN  IF ~parsed_url.ok THEN [exc |-> "ValueError", signed_url |-> <<>>]
      ELSE IF ~decoded_key.ok THEN [exc |-> decoded_key.exc, signed_url |-> <<>>]
      ELSE [exc |-> "none", signed_url |-> SignedUrl(url_to_sign, signature)]

\* The calls the threads make: all with the same key.
ThreadCalls ==
  { Args(u, KeyNameMyKey, KeySpec, Exp2038) : u \in {UrlPath, UrlPathQuery, UrlBadIPv6} }

\* The end of a line, which print writes after its argument.
PrintEnd == <<"\n">>

\* Thread t calls sign_url.
ThreadCall(t) ==
  /\ tpc[t] = "idle"
  /\ \E a \in ThreadCalls : targs' = [targs EXCEPT ![t] = a]
  /\ tpc' = [tpc EXCEPT ![t] = "L47"]
  /\ UNCHANGED <<tsigned, written>>
  /\ UNCHANGED notThreadVars

\* Lines 47-68 in thread t: signed_url is computed, or an exception ends the
\* call.
ThreadSign(t) ==
  /\ tpc[t] = "L47"
  /\ LET r == SignUrlLines47To68(targs[t])
     IN  /\ tsigned' = [tsigned EXCEPT ![t] = r.signed_url]
         /\ tpc' = [tpc EXCEPT ![t] = IF r.exc = "none" THEN "L70" ELSE "raised"]
  /\ UNCHANGED <<targs, written>>
  /\ UNCHANGED notThreadVars

\* Line 70 in thread t, first half: print writes signed_url to sys.stdout.
ThreadPrintText(t) ==
  /\ tpc[t] = "L70"
  /\ written' = Append(written, tsigned[t])
  /\ tpc' = [tpc EXCEPT ![t] = "L70end"]
  /\ UNCHANGED <<targs, tsigned>>
  /\ UNCHANGED notThreadVars

\* Line 70 in thread t, second half: print writes the end of the line to
\* sys.stdout, in a second call of its write method; sign_url returns.
ThreadPrintEnd(t) ==
  /\ tpc[t] = "L70end"
  /\ written' = Append(written, PrintEnd)
  /\ tpc' = [tpc EXCEPT ![t] = "returned"]
  /\ UNCHANGED <<targs, tsigned>>
  /\ UNCHANGED notThreadVars

NextThreads ==
  \/ \E t \in Threads : ThreadCall(t)
  \/ \E t \in Threads : ThreadSign(t)
  \/ \E t \in Threads : ThreadPrintText(t)
  \/ \E t \in Threads : ThreadPrintEnd(t)

SpecThreads == Init /\ [][NextThreads]_vars

\* The texts of ws one after the other.
RECURSIVE Concat(_)
Concat(ws) == IF ws = <<>> THEN <<>> ELSE Head(ws) \o Concat(Tail(ws))

\* The orders in which the threads of R can come.
Orders(R) ==
  { f \in [1..Cardinality(R) -> R] : \A i, j \in 1..Cardinality(R) : f[i] = f[j] => i = j }

\* C13: sign_url may be called by any number of threads that share a key: the
\* calls share no mutable state, so in every interleaving each call produces
\* exactly the output it produces alone.  Once every thread has ended,
\* standard output holds the line of each call that returned, whole, in some
\* order, and nothing else.
C13_EachCallItsOwnOutput ==
  (\A t \in Threads : tpc[t] \in {"returned", "raised"}) =>
    LET R == { t \in Threads : tpc[t] = "returned" }
    IN  \E f \in Orders(R) :
          Concat(written)
            = Concat([i \in 1..Cardinality(R) |->
                        SignUrlLines47To68(targs[f[i]]).signed_url \o PrintEnd])


(***************************************************************************)
(* src/firestore/cloud-client/distributed_counters.py                      *)
(*                                                                         *)
(* A shard's document id is str(num); the model writes it num, str being   *)
(* one-to-one on numbers.  A document is its "count" field.                *)
(***************************************************************************)

\* Shard().to_dict()["count"]: the count of a new shard.
NewShardCount == 0

\* A plausible slip: the update writes {"count": 1}.
CountSetToOne(count) == 1

\* firestore.Increment(1), applied by the server to the field "count".
CountIncremented(count) == count + 1

\* The ids of 0..n-1 in the order list_documents gives them.
RECURSIVE IdsUpTo(_)
IdsUpTo(n) == IF n = 0 THEN <<>> ELSE Append(IdsUpTo(n - 1), n - 1)

\* init_counter has returned.
InitDone == numShards > 0 /\ initNum = numShards

\* The calls of increment_counter that have not returned.
InFlight == { c \in Clients : clients[c].pc # "idle" }

\* Counter(num_shards)
CounterNew ==
  /\ numShards = 0
  /\ \E n \in 1..MaxShards : numShards' = n
  /\ UNCHANGED <<initNum, shards, clients, completed, reader>>
  /\ UNCHANGED notCounterVars

\* init_counter, one turn of its loop: col_ref.document(str(num)).set(...)
InitCounterSet ==
  /\ numShards > 0
  /\ initNum < numShards
  /\ shards' = [i \in DOMAIN shards \cup {initNum} |->
                  IF i = initNum THEN NewShardCount ELSE shards[i]]
  /\ initNum' = initNum + 1
  /\ UNCHANGED <<numShards, clients, completed, reader>>
  /\ UNCHANGED notCounterVars

\* increment_counter, line 63: doc_id = random.randint(0, self._num_shards - 1)
IncrementPick(c) ==
  /\ InitDone
  /\ clients[c].pc = "idle"
  /\ completed + Cardinality(InFlight) < MaxIncrements
  /\ \E d \in 0..(numShards - 1) :
       clients' = [clients EXCEPT ![c] = [pc |-> "L65", doc_id |-> d]]
  /\ UNCHANGED <<numShards, initNum, shards, completed, reader>>
  /\ UNCHANGED notCounterVars

\* increment_counter, lines 65-66: the update of the picked shard, which the
\* server applies as one step, and the return.
IncrementUpdate(c) ==
  /\ clients[c].pc = "L65"
  /\ shards' = [shards EXCEPT ![clients[c].doc_id] = CountIncremented(@)]
  /\ completed' = completed + 1
  /\ clients' = [clients EXCEPT ![c] = ClientIdle]
  /\ UNCHANGED <<numShards, initNum, reader>>
  /\ UNCHANGED notCounterVars

\* get_count, lines 72-73: total = 0 and the list of the shards.
GetCountList ==
  /\ InitDone
  /\ reader.pc \in {"idle", "returned"}
  /\ reader' = [pc |-> "L74", shards |-> IdsUpTo(numShards), total |-> 0,
                began |-> completed]
  /\ UNCHANGED <<numShards, initNum, shards, clients, completed>>
  /\ UNCHANGED notCounterVars

\* A plausible slip: total = instead of total +=
TotalReplaced(total, count) == count

\* get_count, line 75: total += shard.get().to_dict().get("count", 0)
TotalAdded(total, count) == total + count

\* get_count, lines 74-75, one turn of the loop: one shard is read.
GetCountRead ==
  /\ reader.pc = "L74"
  /\ reader.shards # <<>>
  /\ reader' = [reader EXCEPT !.total = TotalAdded(@, shards[Head(reader.shards)]),
                              !.shards = Tail(@)]
  /\ UNCHANGED <<numShards, initNum, shards, clients, completed>>
  /\ UNCHANGED notCounterVars

\* get_count, line 76: return total
GetCountReturn ==
  /\ reader.pc = "L74"
  /\ reader.shards = <<>>
  /\ reader' = [reader EXCEPT !.pc = "returned"]
  /\ UNCHANGED <<numShards, initNum, shards, clients, completed>>
  /\ UNCHANGED notCounterVars

NextCounter ==
  \/ CounterNew
  \/ InitCounterSet
  \/ \E c \in Clients : IncrementPick(c)
  \/ \E c \in Clients : IncrementUpdate(c)
  \/ GetCountList
  \/ GetCountRead
  \/ GetCountReturn

SpecCounter == Init /\ [][NextCounter]_vars

\* The sum of the counts of the shards ids.
RECURSIVE SumOfShards(_)
SumOfShards(ids) ==
  IF ids = {} THEN 0
  ELSE LET i == CHOOSE i \in ids : TRUE
       IN  shards[i] + SumOfShards(ids \ {i})

\* After init_counter the shards are 0..N-1 and hold the completed increments
\* between them; a get_count that has returned gives a total between the
\* increments completed when it began and those completed now: exactly k when
\* no increment completed meanwhile.
CounterTotal ==
  InitDone =>
    /\ DOMAIN shards = 0..(numShards - 1)
    /\ SumOfShards(DOMAIN shards) = completed
    /\ reader.pc = "returned" =>
         /\ reader.began <= reader.total
         /\ reader.total <= completed
         /\ reader.began = completed => reader.total = completed

\* A step that completes an increment adds 1 to one shard in 0..N-1 and leaves
\* the others as they are; after init_counter no other step changes a shard.
IncrementStep ==
  InitDone =>
    /\ completed' = completed + 1 =>
         \E d \in 0..(numShards - 1) : shards' = [shards EXCEPT ![d] = @ + 1]
    /\ completed' = completed => shards' = shards

\* C17: after init_counter has made the shards 0..N-1 with count 0, and after
\* any k completed increment_counter calls in any interleaving, get_count
\* returns exactly k; each increment_counter adds 1 to exactly one shard in
\* 0..N-1 and leaves every other shard unchanged.
C17_ShardedTotal == []CounterTotal /\ [][IncrementStep]_vars

\* C17 happens: get_count has returned 2 or more from a Counter whose
\* increments went to different shards.
C17_Witness ==
  /\ reader.pc = "returned"
  /\ reader.began = completed
  /\ reader.total >= 2
  /\ \E i, j \in DOMAIN shards : i # j /\ shards[i] > 0 /\ shards[j] > 0


\* The calls of increment_counter begun: those that returned and those
\* that have not.
Started == completed + Cardinality(InFlight)

\* get_count returns in this step.
GetCountReturns == reader.pc = "L74" /\ reader'.pc = "returned"

\* C21: a get_count that runs while increment_counter calls run returns a
\* total that is at least the number of increments completed before it
\* started and at most the number of increments started before it finished.
C21_WithinWindow ==
  [][GetCountReturns =>
       /\ reader'.began <= reader'.total
       /\ reader'.total <= Started']_vars

\* C21 happens: get_count has returned a total that counts one increment
\* completed while it ran and misses another.
C21_Witness ==
  /\ reader.pc = "returned"
  /\ reader.began < reader.total
  /\ reader.total < completed

(***************************************************************************)
(* src/run/image-processing/main.py                                        *)
(*                                                                         *)
(* A request is described by the JSON values index() looks at, each written *)
(* as the JSON text of one value of its kind:                              *)
(*   envelope  the body: "null" (no JSON), "{}", "[1]" or "dict"           *)
(*   message   envelope["message"]: "absent", "'text'" or "dict"           *)
(*   data      message["data"]: "absent", "invalid" (not base64 of JSON),  *)
(*             or what it decodes to: "[]", "5", "null" or "dict"          *)
(*   name, bucket  the properties of the decoded data: "absent", "''",     *)
(*             "null" or "'text'"                                          *)
(***************************************************************************)

PropertyValues == {"absent", "''", "null", "'text'"}

Requests ==
  { [NoRequest EXCEPT !.envelope = e] : e \in {"null", "{}", "[1]", "dict"} }
  \cup { [NoRequest EXCEPT !.envelope = "dict", !.message = m] : m \in {"'text'", "dict"} }
  \cup { [NoRequest EXCEPT !.envelope = "dict", !.message = "dict", !.data = d] :
           d \in {"invalid", "[]", "5", "null", "dict"} }
  \cup { [envelope |-> "dict", message |-> "dict", data |-> "dict",
          name |-> n, bucket |-> b] : n, b \in PropertyValues }

\* bool(v) of a JSON value.
Truthy(v) == v \notin {"null", "{}", "[]", "''", "0"}

\* isinstance(v, dict)
IsDict(v) == v \in {"{}", "dict"}

\* data[key], where value is the property key of data: its value, KeyError
\* when a dict lacks the key, TypeError when data is no dict.
Lookup(data, key, value) ==
  IF ~IsDict(data) THEN [exc |-> "TypeError", value |-> "null"]
  ELSE IF value = "absent" THEN [exc |-> "KeyError", value |-> "null"]
  ELSE [exc |-> "none", value |-> value]

BadRequest(msg) == [status |-> 400, body |-> msg]

\* What Flask answers when index() raises.
InternalServerError == [status |-> 500, body |-> "Internal Server Error"]

\* index() answers r.
Respond(r) ==
  /\ response' = r
  /\ ipc' = "responded"
  /\ served' = served + 1

\* A POST request arrives at '/'.
Receive ==
  /\ ipc \in {"idle", "responded"}
  /\ served < MaxRequests
  /\ \E r \in Requests : request' = r
  /\ response' = NoResponse
  /\ blurred' = FALSE
  /\ ipc' = "L28"
  /\ UNCHANGED served
  /\ UNCHANGED notImageVars

\* Lines 28-32: envelope = request.get_json(); if not envelope
GetJson ==
  /\ ipc = "L28"
  /\ IF ~Truthy(request.envelope)
     THEN Respond(BadRequest("Bad Request: no Pub/Sub message received"))
     ELSE ipc' = "L34" /\ UNCHANGED <<response, served>>
  /\ UNCHANGED <<request, blurred>>
  /\ UNCHANGED notImageVars

\* Lines 34-37: if not isinstance(envelope, dict) or 'message' not in envelope
CheckFormat ==
  /\ ipc = "L34"
  /\ IF ~IsDict(request.envelope) \/ request.message = "absent"
     THEN Respond(BadRequest("Bad Request: invalid Pub/Sub message format"))
     ELSE ipc' = "L40" /\ UNCHANGED <<response, served>>
  /\ UNCHANGED <<request, blurred>>
  /\ UNCHANGED notImageVars

\* Lines 40-51 and 70: the data of the message is decoded; a message without
\* data is answered with 500.
DecodeData ==
  /\ ipc = "L40"
  /\ IF ~(IsDict(request.message) /\ request.data # "absent")
     THEN Respond([status |-> 500, body |-> ""])
     ELSE IF request.data = "invalid"
     THEN Respond(BadRequest("Bad Request: Invalid Pub/Sub message: data property is not valid base64 encoded JSON"))
     ELSE ipc' = "L54" /\ UNCHANGED <<response, served>>
  /\ UNCHANGED <<request, blurred>>
  /\ UNCHANGED notImageVars

\* Lines 54-58: if not data["name"] or not data["bucket"]
Validate ==
  /\ ipc = "L54"
  /\ LET name   == Lookup(request.data, "name", request.name)
         bucket == Lookup(request.data, "bucket", request.bucket)
     IN  IF name.exc # "none" THEN Respond(InternalServerError)
         ELSE IF ~Truthy(name.value)
         THEN Respond(BadRequest("Bad Request: Invalid Cloud Storage notification: expected name and bucket properties"))
         ELSE IF bucket.exc # "none" THEN Respond(InternalServerError)
         ELSE IF ~Truthy(bucket.value)
         THEN Respond(BadRequest("Bad Request: Invalid Cloud Storage notification: expected name and bucket properties"))
         ELSE ipc' = "L60" /\ UNCHANGED <<response, served>>
  /\ UNCHANGED <<request, blurred>>
  /\ UNCHANGED notImageVars

\* Lines 60-68: image.blur_offensive_images(data) returns (204) or raises (500).
Blur ==
  /\ ipc = "L60"
  /\ blurred' = TRUE
  /\ \E status \in {204, 500} : Respond([status |-> status, body |-> ""])
  /\ UNCHANGED request
  /\ UNCHANGED notImageVars

NextImage ==
  \/ Receive
  \/ GetJson
  \/ CheckFormat
  \/ DecodeData
  \/ Validate
  \/ Blur

SpecImage == Init /\ [][NextImage]_vars

\* C18: a message whose decoded data does not carry both a name and a bucket
\* property, either one being absent or empty, is answered with 400 Bad
\* Request ('expected name and bucket properties') and
\* image.blur_offensive_images is not called.
C18_MissingPropertyIs400 ==
  ( /\ ipc = "responded"
    /\ request.data = "dict"
    /\ request.name \in {"absent", "''"} \/ request.bucket \in {"absent", "''"} )
  => /\ response = BadRequest("Bad Request: Invalid Cloud Storage notification: expected name and bucket properties")
     /\ ~blurred


(***************************************************************************)
(* src/functions/http/main.py: get_file_path and parse_multipart           *)
(***************************************************************************)

\* "_".join(s.split()) of a string without leading whitespace: every run of
\* whitespace becomes one "_".
RECURSIVE JoinWords(_)
JoinWords(s) ==
  IF s = <<>> THEN <<>>
  ELSE IF IsSpace(Head(s)) THEN <<"_">> \o JoinWords(LStrip(s))
  ELSE <<Head(s)>> \o JoinWords(Tail(s))

\* s.strip(chars)
RECURSIVE StripChars(_, _)
StripChars(s, chars) ==
  IF s # <<>> /\ Head(s) \in chars THEN StripChars(Tail(s), chars)
  ELSE IF s # <<>> /\ s[Len(s)] \in chars THEN StripChars(Take(s, Len(s) - 1), chars)
  ELSE s

\* werkzeug's _filename_ascii_strip_re, [^A-Za-z0-9_.-], matches c.
FilenameAsciiStrip(c) == ~(IsAlpha(c) \/ IsDigit(c) \/ c \in {"_", ".", "-"})

\* werkzeug.utils.secure_filename(filename) on a POSIX system, for characters
\* without a compatibility decomposition: the characters outside ASCII are
\* dropped, "/" becomes a space, the words are joined with "_", the characters
\* outside [A-Za-z0-9_.-] are dropped, and "." and "_" are stripped from both ends.
SecureFilename(filename) ==
  LET ascii  == SelectSeq(filename, IsAscii)
      spaced == [i \in 1..Len(ascii) |-> IF ascii[i] = "/" THEN " " ELSE ascii[i]]
      joined == JoinWords(Strip(spaced))
      kept   == SelectSeq(joined, LAMBDA c : ~FilenameAsciiStrip(c))
  IN  StripChars(kept, {".", "_"})

\* tempfile.gettempdir()
GetTempDir == <<"/","t","m","p">>

\* get_file_path(filename): os.path.join(tempfile.gettempdir(), file_name)
GetFilePath(filename) == GetTempDir \o <<"/">> \o SecureFilename(filename)

\* The path names a directory: the temporary directory itself.
IsADirectory(path) == path = GetTempDir \o <<"/">>

\* The field names of the requests.
FieldNames ==
  { <<"x">>, <<".",".","/","x">>, <<"a"," ","b">>, <<"a","_","b">>,
    <<".",".">>, <<>>, <<"y",".","p","n","g">> }

\* The sequences of at most n distinct elements of S: the keys of a dict.
RECURSIVE KeysUpTo(_, _)
KeysUpTo(S, n) ==
  IF n = 0 THEN {<<>>}
  ELSE LET shorter == KeysUpTo(S, n - 1)
           longer  == { Append(ks, k) : ks \in shorter, k \in S }
       IN  shorter \cup
           { ks \in longer : \A i \in 1..(Len(ks) - 1) : ks[i] # ks[Len(ks)] }

\* Lines 78-83: parse_multipart is called and processes the form fields.
ParseMultipart ==
  /\ upc = "idle"
  /\ \E fs \in KeysUpTo(FieldNames, MaxFiles), fields \in {<<>>, << <<"f">> >>} :
       /\ files' = fs
       /\ form' = fields
       /\ processed' = [i \in 1..Len(fields) |-> <<"Processed field: ", fields[i]>>]
  /\ upc' = "L87"
  /\ uidx' = 1
  /\ UNCHANGED <<tempdir, uret, uexc>>
  /\ UNCHANGED notUploadVars

\* Lines 86-89: file.save(get_file_path(file_name)) and print, for one file;
\* open(path, "wb") raises IsADirectoryError for a directory.
SaveFile ==
  /\ upc = "L87"
  /\ IF uidx > Len(files)
     THEN /\ upc' = "L92"
          /\ uidx' = 1
          /\ UNCHANGED <<tempdir, processed, uexc>>
     ELSE LET path == GetFilePath(files[uidx])
          IN  IF IsADirectory(path)
              THEN /\ upc' = "raised"
                   /\ uexc' = "IsADirectoryError"
                   /\ UNCHANGED <<uidx, tempdir, processed>>
              ELSE /\ tempdir' = tempdir \cup {path}
                   /\ processed' = Append(processed, <<"Processed file: ", files[uidx]>>)
                   /\ uidx' = uidx + 1
                   /\ UNCHANGED <<upc, uexc>>
  /\ UNCHANGED <<form, files, uret>>
  /\ UNCHANGED notUploadVars

\* Lines 92-96: os.remove(get_file_path(file_name)) for one file, and the
\* return after the last; os.remove raises FileNotFoundError for a path
\* that does not exist.
RemoveFile ==
  /\ upc = "L92"
  /\ IF uidx > Len(files)
     THEN /\ upc' = "returned"
          /\ uret' = <<"D","o","n","e","!">>
          /\ UNCHANGED <<uidx, tempdir, uexc>>
     ELSE LET path == GetFilePath(files[uidx])
          IN  IF path \notin tempdir
              THEN /\ upc' = "raised"
                   /\ uexc' = "FileNotFoundError"
                   /\ UNCHANGED <<uidx, tempdir, uret>>
              ELSE /\ tempdir' = tempdir \ {path}
                   /\ uidx' = uidx + 1
                   /\ UNCHANGED <<upc, uret, uexc>>
  /\ UNCHANGED <<form, files, processed>>
  /\ UNCHANGED notUploadVars

NextUpload ==
  \/ ParseMultipart
  \/ SaveFile
  \/ RemoveFile

SpecUpload == Init /\ [][NextUpload]_vars

\* parse_multipart has ended, by a return or by an exception.
ParseMultipartEnded == upc \in {"returned", "raised"}

\* C19: for every multipart request, whatever the names of its file fields
\* (names that secure_filename maps to the same path or to an empty name
\* included), parse_multipart completes with 'Done!' and no file it saved
\* under tempfile.gettempdir() remains afterwards.
C19_ClearsTemporaryDirectory ==
  ParseMultipartEnded =>
    /\ upc = "returned"
    /\ uret = <<"D","o","n","e","!">>
    /\ tempdir = {}


(***************************************************************************)
(* src/functions/sql/mysql_sample.py: __get_cursor and mysql_demo          *)
(*                                                                         *)
(* pymysql is outside the repository: pymysql.connect returns a new, open  *)
(* Connection or raises; ping(reconnect=True) on a closed connection       *)
(* reconnects it or raises; a failed query closes the connection's socket. *)
(***************************************************************************)

\* The calls of pymysql.connect that returned a connection.
Connected == { i \in 1..Len(connects) : connects[i].conn # NoConnection }

\* A plausible slip: the connection is made anew in every invocation.
ConnectAlways(conn) == TRUE

\* Line 60: if not mysql_conn
NotMysqlConn(conn) == conn = NoConnection

\* The invocation ends, by a return or by an exception.
EndInvocation(how) ==
  /\ spc' = "idle"
  /\ outcome' = how

\* mysql_demo(request) is invoked.
MysqlDemo ==
  /\ spc = "idle"
  /\ invocations < MaxInvocations
  /\ invocations' = invocations + 1
  /\ spc' = "L60"
  /\ openRead' = "unread"
  /\ pinged' = FALSE
  /\ cursorOf' = NoConnection
  /\ outcome' = "none"
  /\ UNCHANGED <<mysql_conn, connOpen, connects>>
  /\ UNCHANGED notSqlVars

\* Lines 60-68: if not mysql_conn: mysql_conn = pymysql.connect(...)
LazyConnect ==
  /\ spc = "L60"
  /\ IF NotMysqlConn(mysql_conn)
     THEN \E returns \in BOOLEAN :
            IF returns
            THEN /\ mysql_conn' = Cardinality(Connected) + 1
                 /\ connOpen' = TRUE
                 /\ connects' = Append(connects,
                      [invocation |-> invocations, conn |-> Cardinality(Connected) + 1])
                 /\ spc' = "L72"
                 /\ UNCHANGED outcome
            ELSE /\ connects' = Append(connects,
                      [invocation |-> invocations, conn |-> NoConnection])
                 /\ EndInvocation("raised")
                 /\ UNCHANGED <<mysql_conn, connOpen>>
     ELSE /\ spc' = "L72"
          /\ UNCHANGED <<mysql_conn, connOpen, connects, outcome>>
  /\ UNCHANGED <<invocations, openRead, pinged, cursorOf>>
  /\ UNCHANGED notSqlVars

\* Lines 49-51 and 72: __get_cursor()
GetCursor ==
  /\ spc = "L72"
  /\ IF ~connOpen
     THEN /\ openRead' = "closed"
          /\ pinged' = TRUE
          /\ \E reconnects \in BOOLEAN :
               IF reconnects
               THEN /\ connOpen' = TRUE
                    /\ cursorOf' = mysql_conn
                    /\ spc' = "L73"
                    /\ UNCHANGED outcome
               ELSE /\ EndInvocation("raised")
                    /\ UNCHANGED <<connOpen, cursorOf>>
     ELSE /\ openRead' = "open"
          /\ cursorOf' = mysql_conn
          /\ spc' = "L73"
          /\ UNCHANGED <<connOpen, pinged, outcome>>
  /\ UNCHANGED <<mysql_conn, invocations, connects>>
  /\ UNCHANGED notSqlVars

\* Lines 73-75: cursor.execute, cursor.fetchone and the return; a query that
\* fails because the server is gone closes the connection.
ExecuteAndReturn ==
  /\ spc = "L73"
  /\ \E answered \in BOOLEAN :
       IF answered
       THEN EndInvocation("returned") /\ UNCHANGED connOpen
       ELSE EndInvocation("raised") /\ connOpen' = FALSE
  /\ UNCHANGED <<mysql_conn, invocations, connects, openRead, pinged, cursorOf>>
  /\ UNCHANGED notSqlVars

NextSql ==
  \/ MysqlDemo
  \/ LazyConnect
  \/ GetCursor
  \/ ExecuteAndReturn

SpecSql == Init /\ [][NextSql]_vars

\* The invocation has obtained its cursor.
HasCursor == spc = "L73"

\* The cursor is one of the global connection, the only one ever returned.
SameGlobalConnection ==
  HasCursor => cursorOf = mysql_conn /\ cursorOf = 1 /\ Cardinality(Connected) = 1

\* A connection found not open was re-opened with ping(reconnect=True)
\* before the cursor was obtained.
ReopenedBeforeCursor ==
  HasCursor => connOpen /\ (openRead = "closed" => pinged)

\* C20 as stated: over any sequence of invocations of mysql_demo in one
\* instance, pymysql.connect is called only in the first invocation (at most
\* once in total), every later invocation uses the same global connection,
\* and a connection that is not open is re-opened with ping(reconnect=True)
\* before a cursor is obtained.
C20_ConnectOnlyInFirstInvocation ==
  /\ Len(connects) <= 1
  /\ \A i \in 1..Len(connects) : connects[i].invocation = 1
  /\ SameGlobalConnection
  /\ ReopenedBeforeCursor

\* C20, amended: pymysql.connect is called only while no call of it has
\* returned a connection (so it returns one at most once in total), and every
\* call of it is made by a different invocation; every invocation after that
\* uses the same global connection, and a connection that is not open is
\* re-opened with ping(reconnect=True) before a cursor is obtained.
C20_ConnectUntilOneReturns ==
  /\ \A i, j \in 1..Len(connects) :
       i < j => /\ connects[i].conn = NoConnection
                /\ connects[i].invocation < connects[j].invocation
  /\ SameGlobalConnection
  /\ ReopenedBeforeCursor

\* The first call of pymysql.connect raised, the second invocation connected,
\* its query failed, and the third invocation pinged the same connection
\* and obtained its cursor.
C20_Witness ==
  /\ Len(connects) = 2
  /\ connects[1].conn = NoConnection
  /\ connects[2] = [invocation |-> 2, conn |-> 1]
  /\ invocations = 3
  /\ HasCursor
  /\ pinged
  /\ cursorOf = 1


(***************************************************************************)
(* src/appengine/flexible/memcache/main.py: index                          *)
(***************************************************************************)

\* not v, of what memcache_client.get returned: None and 0 are false.
NotValue(v) == v = Missing \/ v = 0

\* Line 40, the call: a request arrives and index() reads 'counter'.
IndexGet(w) ==
  /\ hpc[w] = "idle"
  /\ requests < MaxHits
  /\ requests' = requests + 1
  /\ hread' = [hread EXCEPT ![w] = memcache]
  /\ hpc' = [hpc EXCEPT ![w] = "L40"]
  /\ UNCHANGED <<memcache, values>>
  /\ UNCHANGED notMemcacheVars

\* Line 40, the test: if not memcache_client.get('counter')
IndexTest(w) ==
  /\ hpc[w] = "L40"
  /\ hpc' = [hpc EXCEPT ![w] = IF NotValue(hread[w]) THEN "L41" ELSE "L43"]
  /\ UNCHANGED <<memcache, hread, values, requests>>
  /\ UNCHANGED notMemcacheVars

\* Line 41: memcache_client.set('counter', 0)
IndexSet(w) ==
  /\ hpc[w] = "L41"
  /\ memcache' = 0
  /\ hpc' = [hpc EXCEPT ![w] = "L43"]
  /\ UNCHANGED <<hread, values, requests>>
  /\ UNCHANGED notMemcacheVars

\* Lines 43-45: value = memcache_client.incr('counter', 1), which the server
\* applies as one step, and the return of 'Value is {value}'.
IndexIncr(w) ==
  /\ hpc[w] = "L43"
  /\ memcache # Missing
  /\ memcache' = memcache + 1
  /\ values' = Append(values, memcache + 1)
  /\ hpc' = [hpc EXCEPT ![w] = "idle"]
  /\ UNCHANGED <<hread, requests>>
  /\ UNCHANGED notMemcacheVars

NextMemcache ==
  \/ \E w \in Workers : IndexGet(w)
  \/ \E w \in Workers : IndexTest(w)
  \/ \E w \in Workers : IndexSet(w)
  \/ \E w \in Workers : IndexIncr(w)

SpecMemcache == Init /\ [][NextMemcache]_vars

\* C22: the hit counter loses no increment: in any interleaving of the
\* requests the values returned are pairwise distinct, and after n completed
\* requests, none running, the stored 'counter' equals n.
C22_NoLostIncrement ==
  /\ \A i, j \in 1..Len(values) : i # j => values[i] # values[j]
  /\ ((\A w \in Workers : hpc[w] = "idle") /\ values # <<>>) =>
       memcache = Len(values)


(***************************************************************************)
(* src/datastore/cloud-client/snippets.py: transactional_update            *)
(*                                                                         *)
(* A transaction reads the committed balances, holds its puts until the    *)
(* end of the with block, and commits them in one step; a read or a commit *)
(* can raise Conflict or another exception, and then nothing is committed. *)
(***************************************************************************)

\* account1['balance'] = 100, account2['balance'] = 100
InitialBalance == 100

\* transfer_funds(client, account1.key, account2.key, 50)
Amount == 50

\* for _ in range(5)
Attempts == 5

\* A plausible slip: except Exception
CatchesAny(e) == TRUE

\* except google.cloud.exceptions.Conflict
CatchesConflict(e) == e = "Conflict"

\* A plausible slip: the amount is not taken from from_account.
BalanceKept(balance, amount) == balance

\* from_account['balance'] -= amount
BalanceDebited(balance, amount) == balance - amount

\* to_account['balance'] += amount
BalanceCredited(balance, amount) == balance + amount

\* transfer_funds raises e with its transaction rolled back: the loop goes on
\* (continue) if the exception is caught, and the exception leaves
\* transactional_update otherwise.
Raises(e) ==
  /\ outcomes' = Append(outcomes, e)
  /\ mutations' = [a \in {} |-> 0]
  /\ dpc' = IF CatchesConflict(e) THEN "L655" ELSE "raised"

\* Lines 634-640: transactional_update is called; its two accounts are
\* created and stored under new keys.
PutAccounts ==
  /\ dpc \in {"idle", "returned", "raised"}
  /\ updates < MaxUpdates
  /\ updates' = updates + 1
  /\ store' = [a \in DOMAIN store \cup {Account1(updates + 1), Account2(updates + 1)} |->
                 IF a \in DOMAIN store THEN store[a] ELSE InitialBalance]
  /\ from_account' = 0
  /\ to_account' = 0
  /\ outcomes' = <<>>
  /\ dprinted' = <<>>
  /\ dpc' = "L655"
  /\ UNCHANGED mutations
  /\ UNCHANGED notDatastoreVars

\* Lines 655-657 and 661-662: the head of the loop: the next call of
\* transfer_funds opens a transaction, or the loop is exhausted and its else
\* branch prints.
LoopHead ==
  /\ dpc = "L655"
  /\ IF Len(outcomes) < Attempts
     THEN /\ dpc' = "L645"
          /\ UNCHANGED dprinted
     ELSE /\ dprinted' = Append(dprinted, "Transaction failed.")
          /\ dpc' = "L665"
  /\ UNCHANGED <<updates, store, from_account, to_account, mutations, outcomes>>
  /\ UNCHANGED notDatastoreVars

\* Lines 645-646: from_account = client.get(from_key),
\* to_account = client.get(to_key)
GetAccounts ==
  /\ dpc = "L645"
  /\ \E e \in {"none", "Conflict", "other"} :
       IF e = "none"
       THEN /\ from_account' = store[Account1(updates)]
            /\ to_account' = store[Account2(updates)]
            /\ dpc' = "L648"
            /\ UNCHANGED <<mutations, outcomes>>
       ELSE /\ Raises(e)
            /\ UNCHANGED <<from_account, to_account>>
  /\ UNCHANGED <<updates, store, dprinted>>
  /\ UNCHANGED notDatastoreVars

\* Lines 648-651: the two local balances are changed and put in the
\* transaction.
PutMulti ==
  /\ dpc = "L648"
  /\ from_account' = BalanceDebited(from_account, Amount)
  /\ to_account' = BalanceCredited(to_account, Amount)
  /\ mutations' = (Account1(updates) :> BalanceDebited(from_account, Amount))
                    @@ (Account2(updates) :> BalanceCredited(to_account, Amount))
  /\ dpc' = "L651"
  /\ UNCHANGED <<updates, store, outcomes, dprinted>>
  /\ UNCHANGED notDatastoreVars

\* The end of the with block of line 644, and line 658: the transaction
\* commits its puts in one step and the loop is left (break), or the commit
\* raises.
Commit ==
  /\ dpc = "L651"
  /\ \E e \in {"none", "Conflict", "other"} :
       IF e = "none"
       THEN /\ store' = [a \in DOMAIN store |->
                           IF a \in DOMAIN mutations THEN mutations[a] ELSE store[a]]
            /\ mutations' = [a \in {} |-> 0]
            /\ outcomes' = Append(outcomes, "committed")
            /\ dpc' = "L665"
       ELSE /\ Raises(e)
            /\ UNCHANGED store
  /\ UNCHANGED <<updates, from_account, to_account, dprinted>>
  /\ UNCHANGED notDatastoreVars

\* Line 665: return account1.key, account2.key
ReturnKeys ==
  /\ dpc = "L665"
  /\ dpc' = "returned"
  /\ UNCHANGED <<updates, store, from_account, to_account, mutations, outcomes,
                 dprinted>>
  /\ UNCHANGED notDatastoreVars

NextDatastore ==
  \/ PutAccounts
  \/ LoopHead
  \/ GetAccounts
  \/ PutMulti
  \/ Commit
  \/ ReturnKeys

SpecDatastore == Init /\ [][NextDatastore]_vars

\* The calls of transfer_funds made: those that ended and the running one.
TransferFundsCalls ==
  Len(outcomes) + (IF dpc \in {"L645", "L648", "L651"} THEN 1 ELSE 0)

\* All the attempts the loop allows were made and each raised Conflict.
AllConflicted ==
  /\ Len(outcomes) = Attempts
  /\ \A i \in 1..Len(outcomes) : outcomes[i] = "Conflict"

\* transactional_update has ended, by its return or by an exception.
UpdateEnded == dpc \in {"returned", "raised"}

\* C23: the retry loop calls transfer_funds at most 5 times, makes no
\* further attempt after the first attempt that does not raise Conflict, and
\* prints 'Transaction failed.' exactly when all 5 attempts raised Conflict.
C23_RetryLoop ==
  /\ TransferFundsCalls <= 5
  /\ \A i \in 1..(TransferFundsCalls - 1) : outcomes[i] = "Conflict"
  /\ dprinted # <<>> => AllConflicted /\ dprinted = <<"Transaction failed.">>
  /\ UpdateEnded => (AllConflicted <=> dprinted = <<"Transaction failed.">>)

\* C23 happens: the fifth attempt raised Conflict and the line was printed.
C23_Witness ==
  /\ dpc = "returned"
  /\ AllConflicted
  /\ dprinted = <<"Transaction failed.">>

\* Some attempt committed.
SomeCommitted == \E i \in 1..Len(outcomes) : outcomes[i] = "committed"

\* The committed balances of the accounts of the call number n.
Balances(n) == <<store[Account1(n)], store[Account2(n)]>>

\* C24: transfer_funds conserves money and is applied at most once: whatever
\* number of attempts conflicted, the committed balances of a call's accounts
\* are always (100, 100) or (50, 150), never a state with one balance
\* changed, and after transactional_update finishes their sum is 200 and
\* they are (50, 150) if some attempt committed and (100, 100) otherwise.
C24_ConservesMoney ==
  /\ \A n \in 1..updates : Balances(n) \in { <<100, 100>>, <<50, 150>> }
  /\ UpdateEnded =>
       /\ store[Account1(updates)] + store[Account2(updates)] = 200
       /\ SomeCommitted => Balances(updates) = <<50, 150>>
       /\ ~SomeCommitted => Balances(updates) = <<100, 100>>

\* C24 happens: two attempts conflicted, the third committed, and
\* transactional_update returned.
C24_Witness ==
  /\ dpc = "returned"
  /\ outcomes = <<"Conflict", "Conflict", "committed">>
  /\ Balances(updates) = <<50, 150>>


(***************************************************************************)
(* src/functions/slack/main.py: verify_web_hook and kg_search              *)
(***************************************************************************)

\* The tokens a config.json or a request may hold.
SlackTokens == {"xoxb-1", "xoxb-2"}

\* The requests: any method, and a form that holds 'token' and 'text', one of
\* them, or nothing.
KgRequests ==
  [method : {"GET", "POST", "PUT"},
   token  : SlackTokens \cup {"", NoField},
   text   : {"giraffe", NoField}]

\* not f, of the form f: it holds no field.
FormIsEmpty(f) == f.token = NoField /\ f.text = NoField

\* A plausible slip: only the presence of a form is checked.
InvalidWithoutForm(f, slack_token) == FormIsEmpty(f)

\* verify_web_hook: if not form or form.get('token') != config['SLACK_TOKEN']
InvalidRequest(f, slack_token) == FormIsEmpty(f) \/ f.token # slack_token

\* kg_search ends with the exception e.
KgRaises(e) ==
  /\ kexc' = e
  /\ kpc' = "raised"
  /\ UNCHANGED kresponse

\* kg_search returns the response r.
KgReturns(r) ==
  /\ kresponse' = r
  /\ kpc' = "returned"
  /\ UNCHANGED kexc

\* Lines 21-23: config.json is read.
LoadConfig ==
  /\ kpc = "L21"
  /\ \E t \in SlackTokens : config' = t
  /\ kpc' = "idle"
  /\ UNCHANGED <<krequest, verified, searched, kresponse, kexc>>
  /\ UNCHANGED notSlackVars

\* kg_search(request) is called.
KgSearch ==
  /\ kpc = "idle"
  /\ \E r \in KgRequests : krequest' = r
  /\ kpc' = "L92"
  /\ UNCHANGED <<config, verified, searched, kresponse, kexc>>
  /\ UNCHANGED notSlackVars

\* Lines 92-93: if request.method != 'POST'
CheckMethod ==
  /\ kpc = "L92"
  /\ IF krequest.method # "POST"
     THEN KgReturns([status |-> 405, body |-> "Only POST requests are accepted"])
     ELSE kpc' = "L95" /\ UNCHANGED <<kresponse, kexc>>
  /\ UNCHANGED <<config, krequest, verified, searched>>
  /\ UNCHANGED notSlackVars

\* Line 95: verify_web_hook(request.form)
VerifyWebHook ==
  /\ kpc = "L95"
  /\ verified' = TRUE
  /\ IF InvalidRequest(krequest, config)
     THEN KgRaises("ValueError")
     ELSE kpc' = "L96" /\ UNCHANGED <<kresponse, kexc>>
  /\ UNCHANGED <<config, krequest, searched>>
  /\ UNCHANGED notSlackVars

\* Lines 96-97 and 83-86: request.form['text'], which raises for a form
\* without 'text'; make_search_request builds the search request and
\* executes it, and the API answers with an entity, with none, or fails.
MakeSearchRequest ==
  /\ kpc = "L96"
  /\ IF krequest.text = NoField
     THEN KgRaises("BadRequestKeyError") /\ UNCHANGED searched
     ELSE /\ searched' = TRUE
          /\ \E res \in {"entity", "no entity", "HttpError"} :
               IF res = "HttpError" THEN KgRaises("HttpError")
               ELSE KgReturns([status |-> 200, body |-> res])
  /\ UNCHANGED <<config, krequest, verified>>
  /\ UNCHANGED notSlackVars

NextSlack ==
  \/ LoadConfig
  \/ KgSearch
  \/ CheckMethod
  \/ VerifyWebHook
  \/ MakeSearchRequest

SpecSlack == Init /\ [][NextSlack]_vars

\* kg_search has ended, by its return or by an exception.
KgEnded == kpc \in {"returned", "raised"}

\* C25: make_search_request is executed only for POST requests whose form
\* 'token' equals the configured SLACK_TOKEN; a request of another method gets
\* 405 with no verification and no search; a POST request with a missing
\* form or a wrong token raises ValueError before any search request is built.
C25_SearchOnlyVerified ==
  /\ searched => krequest.method = "POST" /\ krequest.token = config
  /\ (KgEnded /\ krequest.method # "POST") =>
       /\ kpc = "returned"
       /\ kresponse.status = 405
       /\ ~verified
       /\ ~searched
  /\ (KgEnded /\ krequest.method = "POST"
        /\ (FormIsEmpty(krequest) \/ krequest.token # config)) =>
       /\ kexc = "ValueError"
       /\ ~searched

\* C25 happens: a POST request with the configured token was searched for
\* and answered.
C25_Witness ==
  /\ kpc = "returned"
  /\ krequest.method = "POST"
  /\ krequest.token = config
  /\ searched
  /\ kresponse.status = 200


=============================================================================
